---- MODULE Spec2Model ----
(***************************************************************************)
(* resticm: the maintenance workflows (backup, full, default), the         *)
(* forget, prune and check commands, the hook contract, the                *)
(* process-exclusivity file lock, the engine adapter's copy and init, the  *)
(* deep-check tracker and the notifier.                                    *)
(*                                                                         *)
(* Spec        one run of one command; the environment (hook files, hook  *)
(*             exit codes, engine exit codes, repository lock lists) is   *)
(*             drawn with \E at the point where the code reads it.        *)
(* LockSpec    several processes calling Lock.Acquire, Lock.Release and   *)
(*             Lock.IsLocked on one path, one system call per step.       *)
(* CopySpec    one call of Executor.Copy or Executor.InitWithOptions on   *)
(*             options drawn from a small set of repository locations,    *)
(*             access keys and passwords.                                 *)
(* CheckSpec   the check steps of successive command runs, with the       *)
(*             deep-check state files that persist between them.          *)
(* NotifySpec  the notifier call that ends a backup run, one provider per *)
(*             step.                                                      *)
(* StartSpec   the opening of a command up to lock.Acquire(), with the    *)
(*             lines it writes to the log.                                *)
(* LookupSpec  the loops over cfg.CopyToBackends when cfg.Backends lacks  *)
(*             some of the names, one iteration per step.                 *)
(***************************************************************************)
EXTENDS Naturals, Sequences, FiniteSets, TLC

VARIABLES
    command,      \* which entry point runs: "backup", "full", "default", "forget",
                  \* "prune" or "check"
    flags,        \* the command-line flags and configuration switches of the run
    pc,           \* position of the run in its step sequence
    cur,          \* index into cfg.CopyToBackends of the loop in progress
    errors,       \* the `errors` slice of runFull / runDefaultWorkflow
    engineLog,    \* every invocation of the external engine, in order
    hookLog,      \* every call of a Runner.Run* method, in order
    notifyLog,    \* every NotifySuccess / NotifyError call, in order
    staleLockRepos, \* runFull's staleLockRepos slice
    ret,          \* what the command returned
    lockHeld,     \* this run holds the process-exclusivity lock
    faults,       \* failures injected so far (bounded by MaxFaults)
    lk_path,      \* LockSpec: inode the lock path names, 0 when the path is absent
    lk_flock,     \* LockSpec: inode -> process whose descriptor holds the flock, 0 if none
    lk_fd,        \* LockSpec: process -> inode of its open descriptor, 0 if none
    lk_file,      \* LockSpec: process -> l.file is set
    lk_pc,        \* LockSpec: process -> position inside Acquire / Release
    lk_since,     \* LockSpec: process -> the processes that have held the lock
                  \* without interruption since its Acquire call began
    cp_opts,      \* CopySpec: the CopyOptions passed to Executor.Copy
    cp_env,       \* CopySpec: e.Env["AWS_ACCESS_KEY_ID"] of the executor, "" if unset
    cp_runs,      \* CopySpec: the subprocess invocations made (their arguments)
    cp_ret,       \* CopySpec: what Copy returned, "none" before the call
    cp_op,        \* CopySpec: the method called, "copy" or "init"
    cp_pc,        \* CopySpec: "call", "run" (the engine is to be run), "returned"
    cp_files,     \* CopySpec: the temporary password files that exist
    ck_run,       \* CheckSpec: the command run under way and its --deep / --auto
    ck_interval,  \* CheckSpec: cfg.DeepCheckIntervalDays
    ck_hash,      \* CheckSpec: repository -> path of its deep-check state file
    ck_files,     \* CheckSpec: path -> what the state file holds
    ck_now,       \* CheckSpec: the current day
    ck_pos,       \* CheckSpec: index in CheckOrder of the next check step
    ck_last,      \* CheckSpec: the last check step of the run under way
    nt_run,       \* NotifySpec: flags and backup result of the run that notifies
    nt_cfg,       \* NotifySpec: cfg.Notifications
    nt_pc,        \* NotifySpec: position of the notifier call
    nt_pos,       \* NotifySpec: index of the provider that send tries next
    nt_lastErr,   \* NotifySpec: lastErr of Notifier.send (a provider name)
    nt_sent,      \* NotifySpec: the messages handed to providers, in order
    nt_ret,       \* NotifySpec: what the notifier call returned, "none" before
    st_run,       \* StartSpec: the command and what it meets when it starts
    st_pc,        \* StartSpec: "start", "acquire", "body", "returned"
    st_log,       \* StartSpec: the lines the logger has written, in order
    st_acquired,  \* StartSpec: lock.Acquire() has succeeded
    st_ret,       \* StartSpec: what the command returned, "none" before
    bk_run,       \* LookupSpec: the command, cfg.Backends and the flags read
    bk_pc,        \* LookupSpec: "validate", "loop", "verify", "done"
    bk_pos,       \* LookupSpec: index into cfg.CopyToBackends of the iteration
    bk_calls,     \* LookupSpec: the engine invocations made, in order
    bk_errors,    \* LookupSpec: the entries appended to the error list
    bk_ret        \* LookupSpec: an error returned before the loop, or "none"

wfVars == <<command, flags, pc, cur, errors, engineLog, hookLog, notifyLog,
            staleLockRepos, ret, lockHeld, faults>>
lkVars == <<lk_path, lk_flock, lk_fd, lk_file, lk_pc, lk_since>>
cpVars == <<cp_opts, cp_env, cp_runs, cp_ret, cp_op, cp_pc, cp_files>>
ckVars == <<ck_run, ck_interval, ck_hash, ck_files, ck_now, ck_pos, ck_last>>
ntVars == <<nt_run, nt_cfg, nt_pc, nt_pos, nt_lastErr, nt_sent, nt_ret>>
stVars == <<st_run, st_pc, st_log, st_acquired, st_ret>>
bkVars == <<bk_run, bk_pc, bk_pos, bk_calls, bk_errors, bk_ret>>
vars == <<command, flags, pc, cur, errors, engineLog, hookLog, notifyLog,
          staleLockRepos, ret, lockHeld, faults,
          lk_path, lk_flock, lk_fd, lk_file, lk_pc, lk_since,
          cp_opts, cp_env, cp_runs, cp_ret, cp_op, cp_pc, cp_files,
          ck_run, ck_interval, ck_hash, ck_files, ck_now, ck_pos, ck_last,
          nt_run, nt_cfg, nt_pc, nt_pos, nt_lastErr, nt_sent, nt_ret,
          st_run, st_pc, st_log, st_acquired, st_ret,
          bk_run, bk_pc, bk_pos, bk_calls, bk_errors, bk_ret>>

(***************************************************************************)
(* Bounds                                                                  *)
(***************************************************************************)
NumSecondaries == 3
MaxFaults == 2
MaxLocks == 2
NumProcs == 3
MaxDay == 2
MaxInterval == 1
MaxProviders == 2

(***************************************************************************)
(* Configuration                                                           *)
(***************************************************************************)
Primary == 0
\* every name in cfg.CopyToBackends is taken to have its entry in
\* cfg.Backends; LookupSpec follows the loops without that assumption
CopyToBackends == [i \in 1..NumSecondaries |-> i]
Targets == {Primary} \cup {CopyToBackends[i] : i \in 1..NumSecondaries}

\* a context that selects a backend name cfg.Backends does not hold
NoSuchBackend == NumSecondaries + 1

\* cfg.Retention: the retention policies the runs are checked with
NoRetention ==
    [KeepWithin |-> "", KeepHourly |-> 0, KeepDaily |-> 0, KeepWeekly |-> 0,
     KeepMonthly |-> 0, KeepYearly |-> 0]

RetentionConfigs ==
    {[KeepWithin |-> "", KeepHourly |-> 0, KeepDaily |-> 7, KeepWeekly |-> 4,
      KeepMonthly |-> 6, KeepYearly |-> 0],
     [KeepWithin |-> "48h", KeepHourly |-> 24, KeepDaily |-> 14, KeepWeekly |-> 8,
      KeepMonthly |-> 12, KeepYearly |-> 2]}

\* doPrune stands for `doPrune && !noPrune`, doCheck for
\* `(doCheck || deep) && !noCheck`; activeBackend = Primary stands for a
\* context that selects no backend or "primary"
NoFlags ==
    [noHooks |-> FALSE, dryRun |-> FALSE, verifyNoLocks |-> FALSE,
     noBackup |-> FALSE, noForget |-> FALSE, noCopy |-> FALSE,
     doPrune |-> FALSE, doCheck |-> FALSE,
     allHosts |-> FALSE, copyAll |-> FALSE, prune |-> FALSE, primaryOnly |-> FALSE,
     activeBackend |-> Primary, retention |-> NoRetention]

BackupFlags ==
    {[NoFlags EXCEPT !.noHooks = h, !.dryRun = d] : h \in BOOLEAN, d \in BOOLEAN}

FullFlags ==
    {[NoFlags EXCEPT !.noHooks = h, !.dryRun = d, !.verifyNoLocks = v,
                     !.allHosts = a, !.retention = rc] :
        h \in BOOLEAN, d \in BOOLEAN, v \in BOOLEAN, a \in BOOLEAN,
        rc \in RetentionConfigs}

DefaultFlags ==
    {fl \in {[NoFlags EXCEPT !.dryRun = d, !.noBackup = b, !.noForget = f,
                             !.noCopy = c, !.copyAll = a, !.doPrune = p,
                             !.doCheck = k, !.retention = rc] :
                d \in BOOLEAN, b \in BOOLEAN, f \in BOOLEAN, c \in BOOLEAN,
                a \in BOOLEAN, p \in BOOLEAN, k \in BOOLEAN,
                rc \in RetentionConfigs} :
        \* --copy-all is read by the copy loop only
        fl.noCopy => ~fl.copyAll}

\* --primary-only and the selected context of runPrune and runCheck
TargetFlags ==
    {[NoFlags EXCEPT !.primaryOnly = o, !.activeBackend = b] :
        o \in BOOLEAN, b \in Targets \cup {NoSuchBackend}}

ForgetFlags ==
    {[NoFlags EXCEPT !.allHosts = a, !.prune = p, !.primaryOnly = o,
                     !.activeBackend = b, !.retention = rc] :
        a \in BOOLEAN, p \in BOOLEAN, o \in BOOLEAN,
        b \in Targets \cup {NoSuchBackend}, rc \in RetentionConfigs}

(***************************************************************************)
(* Hook runner                                                             *)
(***************************************************************************)
HookFileStates == {"unset", "missing", "staterr", "notexec", "exec"}
ExitCodes == {0, 1}

\* mutant: the runner has no dry-run branch
Run_DryRunSpawns(file, dry, exit) ==
    IF file \in {"unset", "missing"}
    THEN [spawned |-> FALSE, err |-> FALSE, dryLog |-> FALSE]
    ELSE IF file \in {"staterr", "notexec"}
    THEN [spawned |-> FALSE, err |-> TRUE, dryLog |-> FALSE]
    ELSE [spawned |-> TRUE, err |-> exit # 0, dryLog |-> FALSE]

\* mutant: the dry-run branch comes before the checks of the hook file
Run_DryRunFirst(file, dry, exit) ==
    IF file = "unset" THEN [spawned |-> FALSE, err |-> FALSE, dryLog |-> FALSE]
    ELSE IF dry THEN [spawned |-> FALSE, err |-> FALSE, dryLog |-> TRUE]
    ELSE IF file = "missing" THEN [spawned |-> FALSE, err |-> FALSE, dryLog |-> FALSE]
    ELSE IF file \in {"staterr", "notexec"}
    THEN [spawned |-> FALSE, err |-> TRUE, dryLog |-> FALSE]
    ELSE [spawned |-> TRUE, err |-> exit # 0, dryLog |-> FALSE]

\* Runner.Run: what one invocation does, given the state of the hook file
\* and the exit code the script would return.
\* dryLog: the "[DRY-RUN] Would execute hook" line was printed.
Run(file, dry, exit) ==
    IF file = "unset" THEN [spawned |-> FALSE, err |-> FALSE, dryLog |-> FALSE]
    ELSE IF file = "missing" THEN [spawned |-> FALSE, err |-> FALSE, dryLog |-> FALSE]
    ELSE IF file = "staterr" THEN [spawned |-> FALSE, err |-> TRUE, dryLog |-> FALSE]
    ELSE IF file = "notexec" THEN [spawned |-> FALSE, err |-> TRUE, dryLog |-> FALSE]
    ELSE IF dry THEN [spawned |-> FALSE, err |-> FALSE, dryLog |-> TRUE]
    ELSE [spawned |-> TRUE, err |-> exit # 0, dryLog |-> FALSE]

HookOutcomes(dry) == {Run(f, dry, e) : f \in HookFileStates, e \in ExitCodes}

HookCall(name, status, o) ==
    [hook |-> name, status |-> status, spawned |-> o.spawned, err |-> o.err]

RunPreBackup(o) == HookCall("pre_backup", "", o)

RunPostBackup(success, o) ==
    HookCall("post_backup", IF success THEN "success" ELSE "failure", o)

RunOnError(o) == HookCall("on_error", "", o)

RunOnSuccess(o) == HookCall("on_success", "", o)

\* mutant: --no-hooks is not looked at
HooksOn_Always == TRUE

\* a hook call is made only when hooks are not bypassed
HooksOn == ~flags.noHooks

(***************************************************************************)
(* Engine and notifier calls                                               *)
(***************************************************************************)
Results == {"ok", "fail"}
Cost(r) == IF r = "ok" THEN 0 ELSE 1

\* the options of an engine call that takes no ForgetOptions
NoOpts == [none |-> TRUE]

EngineCall(op, target, r) ==
    [op |-> op, target |-> target, result |-> r, opts |-> NoOpts]

\* restic.ForgetOptions built from cfg.Retention
ForgetOptions(rc, hostname, prune) ==
    [KeepWithin |-> rc.KeepWithin, KeepHourly |-> rc.KeepHourly,
     KeepDaily |-> rc.KeepDaily, KeepWeekly |-> rc.KeepWeekly,
     KeepMonthly |-> rc.KeepMonthly, KeepYearly |-> rc.KeepYearly,
     Hostname |-> hostname, Prune |-> prune]

\* executor.Forget(opts)
ForgetCall(target, r, opts) ==
    [op |-> "forget", target |-> target, result |-> r, opts |-> opts]

\* `hostname`, or "" under --all-hosts
HostFilter(allHosts) == IF allHosts THEN "" ELSE "self"
StepError(step, target) == [step |-> step, target |-> target]
Notify(kind, title) == [kind |-> kind, title |-> title]

Running == [done |-> FALSE, err |-> "none", n |-> 0]
ReturnNil == [done |-> TRUE, err |-> "nil", n |-> 0]
ReturnErr(what, n) == [done |-> TRUE, err |-> what, n |-> n]

(***************************************************************************)
(* Repository lock verification                                            *)
(***************************************************************************)
Hosts == {"self", "other"}
LockLists == UNION {[1..k -> Hosts] : k \in 0..MaxLocks}

\* mutant: no lock is ever attributed to the current host
VerifyNoStaleLocks_NoOwn(locks, currentHostname) ==
    [OwnHostLocks |-> <<>>, OtherHostLocks |-> locks,
     HasOwnLocks |-> FALSE, HasOtherLocks |-> Len(locks) > 0]

\* mutant: every lock is attributed to the current host
VerifyNoStaleLocks_AllOwn(locks, currentHostname) ==
    [OwnHostLocks |-> locks, OtherHostLocks |-> <<>>,
     HasOwnLocks |-> Len(locks) > 0, HasOtherLocks |-> FALSE]

\* mutant: each list keeps one lock only
VerifyNoStaleLocks_FirstOnly(locks, currentHostname) ==
    LET own == SelectSeq(locks, LAMBDA h : h = currentHostname)
        other == SelectSeq(locks, LAMBDA h : h # currentHostname)
    IN [OwnHostLocks |-> IF Len(own) > 1 THEN <<own[1]>> ELSE own,
        OtherHostLocks |-> IF Len(other) > 1 THEN <<other[1]>> ELSE other,
        HasOwnLocks |-> Len(own) > 0, HasOtherLocks |-> Len(other) > 0]

\* Executor.VerifyNoStaleLocks: partition the lock list by hostname
VerifyNoStaleLocks(locks, currentHostname) ==
    LET own == SelectSeq(locks, LAMBDA h : h = currentHostname)
        other == SelectSeq(locks, LAMBDA h : h # currentHostname)
    IN [OwnHostLocks |-> own, OtherHostLocks |-> other,
        HasOwnLocks |-> Len(own) > 0, HasOtherLocks |-> Len(other) > 0]

\* what ListLocks can answer: an error, or a list of lock hostnames
LockAnswers == {[err |-> TRUE, locks |-> <<>>]} \cup {[err |-> FALSE, locks |-> l] : l \in LockLists}
LockCost(a) == IF a.err \/ Len(a.locks) > 0 THEN 1 ELSE 0

\* executor.VerifyNoStaleLocks(hostname): the ListLocks call and its answer
LocksCall(target, a) ==
    [op |-> "locks", target |-> target,
     result |-> IF a.err THEN "fail" ELSE "ok",
     opts |-> NoOpts, answer |-> a.locks]

(***************************************************************************)
(* Shared step shapes                                                      *)
(***************************************************************************)
AppendIf(seq, cond, x) == IF cond THEN Append(seq, x) ELSE seq

\* the hook calls a step makes: none at all under --no-hooks
Hooked(calls) == IF HooksOn THEN calls ELSE <<>>

\* mutant: the deferred Release leaves the lock held
Release_Leaked(held) == held

\* the deferred lock.Release() run when the command returns: whether the
\* lock is still held afterwards (l.file = nil)
Release(held) == FALSE

\* lock.Acquire() at the top of a command, with `defer lock.Release()`
AcquireStep(next) ==
    /\ pc = "acquire"
    /\ \E free \in BOOLEAN :
         IF free
         THEN /\ lockHeld' = TRUE
              /\ pc' = next
              /\ ret' = ret
         ELSE /\ lockHeld' = lockHeld
              /\ pc' = "done"
              /\ ret' = ReturnErr("locked", 0)
    /\ UNCHANGED <<command, flags, cur, errors, engineLog, hookLog, notifyLog,
                   staleLockRepos, faults>>
    /\ UNCHANGED <<lkVars, cpVars, ckVars, ntVars, stVars, bkVars>>

\* the pre-flight checks of runBackup and runDefaultWorkflow; an early
\* return runs the deferred Release
PreflightStep(answers, next) ==
    /\ pc = "preflight"
    /\ \E a \in answers :
         IF a = "ok"
         THEN /\ pc' = next
              /\ UNCHANGED <<ret, lockHeld>>
         ELSE /\ pc' = "done"
              /\ ret' = ReturnErr(a, 0)
              /\ lockHeld' = Release(lockHeld)
    /\ UNCHANGED <<command, flags, cur, errors, engineLog, hookLog, notifyLog,
                   staleLockRepos, faults>>
    /\ UNCHANGED <<lkVars, cpVars, ckVars, ntVars, stVars, bkVars>>

\* mutant: the pre-backup hook's error is ignored
PreBackupFailed_Ignored(o) == FALSE

\* `if err := hookRunner.RunPreBackup(); err != nil`
PreBackupFailed(o) == o.err

\* mutant: the on-error hook is not called for a pre-backup failure
PreFailureHooks_NoOnError(o, oe) == <<RunPreBackup(o)>>

\* the hook calls made when the pre-backup hook fails: the failed call
\* itself, then `_ = hookRunner.RunOnError(err)`
PreFailureHooks(o, oe) == <<RunPreBackup(o), RunOnError(oe)>>

\* mutant: the command goes on to its backup after a pre-backup failure
PreFailureNext_Continue == "backup"

\* `return err` after the pre-backup hook failed in runBackup and runFull:
\* the command is over
PreFailureNext == "done"

\* mutant: a failed operation ends the step sequence
NextStep_ShortCircuit(r, next) == IF r = "fail" THEN "summary" ELSE next

\* where a step goes once its operation returned: both branches of
\* `if err := ...; err != nil { errors = append(errors, err) } else { ... }`
\* fall through to the next step
NextStep(r, next) == next

\* one engine operation whose error is appended to `errors`
EngineStep(op, target, next) ==
    /\ \E r \in Results :
         /\ faults + Cost(r) <= MaxFaults
         /\ faults' = faults + Cost(r)
         /\ engineLog' = Append(engineLog, EngineCall(op, target, r))
         /\ errors' = AppendIf(errors, r = "fail", StepError(op, target))
         /\ pc' = NextStep(r, next)
    /\ UNCHANGED <<command, flags, cur, hookLog, notifyLog, staleLockRepos, ret, lockHeld>>
    /\ UNCHANGED <<lkVars, cpVars, ckVars, ntVars, stVars, bkVars>>

\* executor.Forget(opts) as a step of its own
ForgetStep(target, opts, next) ==
    /\ \E r \in Results :
         /\ faults + Cost(r) <= MaxFaults
         /\ faults' = faults + Cost(r)
         /\ engineLog' = Append(engineLog, ForgetCall(target, r, opts))
         /\ errors' = AppendIf(errors, r = "fail", StepError("forget", target))
         /\ pc' = NextStep(r, next)
    /\ UNCHANGED <<command, flags, cur, hookLog, notifyLog, staleLockRepos, ret, lockHeld>>
    /\ UNCHANGED <<lkVars, cpVars, ckVars, ntVars, stVars, bkVars>>

SkipStep(next) ==
    /\ pc' = next
    /\ UNCHANGED <<command, flags, cur, errors, engineLog, hookLog, notifyLog,
                   staleLockRepos, ret, lockHeld, faults>>
    /\ UNCHANGED <<lkVars, cpVars, ckVars, ntVars, stVars, bkVars>>

(***************************************************************************)
(* resticm backup (runBackup)                                              *)
(***************************************************************************)
BackupAcquire ==
    /\ command = "backup"
    /\ AcquireStep("preflight")

BackupPreflight ==
    /\ command = "backup"
    /\ PreflightStep({"ok", "nobackend", "norestic", "noinit"}, "pre_backup")

BackupPreHook ==
    /\ command = "backup"
    /\ pc = "pre_backup"
    /\ IF ~HooksOn
       THEN /\ pc' = "backup"
            /\ UNCHANGED <<hookLog, notifyLog, ret, lockHeld, faults>>
       ELSE \E o \in HookOutcomes(flags.dryRun), oe \in HookOutcomes(flags.dryRun) :
              IF PreBackupFailed(o)
              THEN /\ hookLog' = hookLog \o PreFailureHooks(o, oe)
                   /\ notifyLog' = Append(notifyLog, Notify("error", "pre_backup_hook_failed"))
                   /\ ret' = ReturnErr("hook", 0)
                   /\ pc' = PreFailureNext
                   /\ lockHeld' = Release(lockHeld)
                   /\ faults' = faults + 1
              ELSE /\ hookLog' = Append(hookLog, RunPreBackup(o))
                   /\ pc' = "backup"
                   /\ UNCHANGED <<notifyLog, ret, lockHeld, faults>>
    /\ UNCHANGED <<command, flags, cur, errors, engineLog, staleLockRepos>>
    /\ UNCHANGED <<lkVars, cpVars, ckVars, ntVars, stVars, bkVars>>

BackupRun ==
    /\ command = "backup"
    /\ pc = "backup"
    /\ \E r \in Results, op \in HookOutcomes(flags.dryRun), oe \in HookOutcomes(flags.dryRun) :
         /\ engineLog' = Append(engineLog, EngineCall("backup", Primary, r))
         /\ faults' = faults + Cost(r)
         /\ IF r = "fail"
            THEN /\ hookLog' = hookLog \o Hooked(<<RunPostBackup(FALSE, op), RunOnError(oe)>>)
                 /\ notifyLog' = Append(notifyLog, Notify("error", "backup_failed"))
                 /\ ret' = ReturnErr("engine", 0)
            ELSE /\ hookLog' = hookLog \o Hooked(<<RunPostBackup(TRUE, op), RunOnSuccess(oe)>>)
                 /\ notifyLog' = Append(notifyLog, Notify("success", "backup_completed"))
                 /\ ret' = ReturnNil
    /\ pc' = "done"
    /\ lockHeld' = Release(lockHeld)
    /\ UNCHANGED <<command, flags, cur, errors, staleLockRepos>>
    /\ UNCHANGED <<lkVars, cpVars, ckVars, ntVars, stVars, bkVars>>

(***************************************************************************)
(* resticm full (runFull)                                                  *)
(***************************************************************************)
\* where runFull goes once the primary's chain is done
FullAfterPrimary ==
    IF Len(CopyToBackends) = 0
    THEN (IF flags.verifyNoLocks THEN "verify_primary" ELSE "summary")
    ELSE "copy"

\* mutant: after the last backend the run takes up the primary again
AfterBackend_BackToPrimary(i, loop, after) ==
    IF i < Len(CopyToBackends) THEN loop ELSE "forget"

\* where the copy loop goes after the backend at index i
AfterBackend(i, loop, after) == IF i < Len(CopyToBackends) THEN loop ELSE after

FullAcquire ==
    /\ command = "full"
    /\ AcquireStep("pre_backup")

FullPreBackup ==
    /\ command = "full"
    /\ pc = "pre_backup"
    /\ IF ~HooksOn
       THEN /\ pc' = "backup"
            /\ UNCHANGED <<errors, hookLog, notifyLog, ret, lockHeld, faults>>
       ELSE \E o \in HookOutcomes(flags.dryRun), oe \in HookOutcomes(flags.dryRun) :
              IF PreBackupFailed(o)
              THEN /\ errors' = Append(errors, StepError("pre_backup", Primary))
                   /\ hookLog' = hookLog \o PreFailureHooks(o, oe)
                   /\ notifyLog' = Append(notifyLog, Notify("error", "pre_backup_hook_failed"))
                   /\ ret' = ReturnErr("hook", 0)
                   /\ pc' = PreFailureNext
                   /\ lockHeld' = Release(lockHeld)
                   /\ faults' = faults + 1
              ELSE /\ hookLog' = Append(hookLog, RunPreBackup(o))
                   /\ pc' = "backup"
                   /\ UNCHANGED <<errors, notifyLog, ret, lockHeld, faults>>
    /\ UNCHANGED <<command, flags, cur, engineLog, staleLockRepos>>
    /\ UNCHANGED <<lkVars, cpVars, ckVars, ntVars, stVars, bkVars>>

\* mutant: the post-backup hook runs only after a successful backup
BackupStepHooks_NoPost(r, op, oe) ==
    IF r = "fail"
    THEN <<RunOnError(oe)>>
    ELSE <<RunPostBackup(TRUE, op)>>

\* the hook calls of a workflow's backup step, in the order the code makes them
BackupStepHooks(r, op, oe) ==
    IF r = "fail"
    THEN <<RunPostBackup(FALSE, op), RunOnError(oe)>>
    ELSE <<RunPostBackup(TRUE, op)>>

\* mutant: a failed backup is not appended to `errors`
BackupStepErrors_Dropped(r) == <<>>

\* what a workflow's backup step appends to `errors`
BackupStepErrors(r) ==
    IF r = "fail" THEN <<StepError("backup", Primary)>> ELSE <<>>

\* mutant: a failed post-backup hook is appended to `errors`
PostBackupErrors_Counted(op) ==
    IF op.err THEN <<StepError("post_backup", Primary)>> ELSE <<>>

\* what the post-backup hook's own result appends to `errors`: nothing,
\* `_ = hookRunner.RunPostBackup(...)` discards it
PostBackupErrors(op) == <<>>

\* mutant: the summary returns nil whatever the error list holds
Verdict_AlwaysNil(errs) == ReturnNil

\* the summary's verdict on the accumulated error list
Verdict(errs) ==
    IF Len(errs) = 0 THEN ReturnNil ELSE ReturnErr("count", Len(errs))

\* mutant: the summary notifies failures only
FinalNotification_ErrorOnly(errs) ==
    IF Len(errs) = 0 THEN <<>> ELSE <<Notify("error", "final")>>

\* the notifier calls of the summary: NotifySuccess when `errors` is empty,
\* NotifyError otherwise
FinalNotification(errs) ==
    IF Len(errs) = 0
    THEN <<Notify("success", "final")>>
    ELSE <<Notify("error", "final")>>

FullBackup ==
    /\ command = "full"
    /\ pc = "backup"
    /\ \E r \in Results, op \in HookOutcomes(flags.dryRun), oe \in HookOutcomes(flags.dryRun) :
         /\ faults + Cost(r) <= MaxFaults
         /\ faults' = faults + Cost(r)
         /\ engineLog' = Append(engineLog, EngineCall("backup", Primary, r))
         /\ errors' = errors \o BackupStepErrors(r) \o Hooked(PostBackupErrors(op))
         /\ hookLog' = hookLog \o Hooked(BackupStepHooks(r, op, oe))
    /\ pc' = "forget"
    /\ UNCHANGED <<command, flags, cur, notifyLog, staleLockRepos, ret, lockHeld>>
    /\ UNCHANGED <<lkVars, cpVars, ckVars, ntVars, stVars, bkVars>>

\* runFull's forgetOpts, built once and passed to every Forget call
FullForgetOpts == ForgetOptions(flags.retention, HostFilter(flags.allHosts), FALSE)

FullForget ==
    /\ command = "full"
    /\ pc = "forget"
    /\ ForgetStep(Primary, FullForgetOpts, "prune")

FullPrune ==
    /\ command = "full"
    /\ pc = "prune"
    /\ EngineStep("prune", Primary, "check")

FullCheck ==
    /\ command = "full"
    /\ pc = "check"
    /\ EngineStep("check", Primary, FullAfterPrimary)

\* runDefaultWorkflow's copyHostname: `hostname`, or "" under --copy-all
DefaultCopyHostname == IF flags.copyAll THEN "" ELSE "self"

\* runFull's copyHostname
FullCopyHostname == HostFilter(flags.allHosts)

\* destExecutor.Copy(copyOpts), as far as the host filter goes
CopyCall(target, r) ==
    [op |-> "copy", target |-> target, result |-> r,
     opts |-> [Hostname |-> IF command = "default" THEN DefaultCopyHostname
                            ELSE FullCopyHostname]]

\* mutant: the `continue` after a failed copy is missing
BackendCalls_NoSkip(b, c, chain) == <<CopyCall(b, c)>> \o chain

\* the engine calls of one iteration of the copy loop: a failed copy
\* `continue`s, a successful one is followed by the maintenance chain
BackendCalls(b, c, chain) ==
    IF c = "fail"
    THEN <<CopyCall(b, c)>>
    ELSE <<CopyCall(b, c)>> \o chain

\* mutant: one iteration appends at most one entry to `errors`
FailedCalls_AtMostOne(calls) ==
    LET failed == SelectSeq(calls, LAMBDA x : x.result = "fail")
    IN IF Len(failed) = 0 THEN <<>>
       ELSE <<StepError(failed[1].op, failed[1].target)>>

\* the entries one iteration appends to `errors`: one per failed call
FailedCalls(calls) ==
    [i \in 1..Len(SelectSeq(calls, LAMBDA e : e.result = "fail")) |->
        LET e == SelectSeq(calls, LAMBDA x : x.result = "fail")[i]
        IN StepError(e.op, e.target)]

FullCopyBackend ==
    /\ command = "full"
    /\ pc = "copy"
    /\ LET b == CopyToBackends[cur] IN
       \E c \in Results, f \in Results, p \in Results, k \in Results :
         LET calls == BackendCalls(b, c, <<ForgetCall(b, f, FullForgetOpts),
                                           EngineCall("prune", b, p),
                                           EngineCall("check", b, k)>>)
             failed == FailedCalls(calls)
         IN /\ c = "fail" => (f = "ok" /\ p = "ok" /\ k = "ok")
            /\ faults + Len(failed) <= MaxFaults
            /\ faults' = faults + Len(failed)
            /\ engineLog' = engineLog \o calls
            /\ errors' = errors \o failed
    /\ pc' = AfterBackend(cur, "copy", IF flags.verifyNoLocks THEN "verify_primary" ELSE "summary")
    /\ cur' = IF cur < Len(CopyToBackends) THEN cur + 1 ELSE 1
    /\ UNCHANGED <<command, flags, hookLog, notifyLog, staleLockRepos, ret, lockHeld>>
    /\ UNCHANGED <<lkVars, cpVars, ckVars, ntVars, stVars, bkVars>>

\* one repository's lock verification inside runFull
VerifyRepo(target, next, nextCur) ==
    \E a \in LockAnswers :
       /\ faults + LockCost(a) <= MaxFaults
       /\ faults' = faults + LockCost(a)
       /\ engineLog' = Append(engineLog, LocksCall(target, a))
       /\ LET stale == ~a.err /\ VerifyNoStaleLocks(a.locks, "self").HasOwnLocks
          IN /\ staleLockRepos' = AppendIf(staleLockRepos, stale, target)
             /\ errors' = AppendIf(errors, stale, StepError("stale_lock", target))
       /\ pc' = next
       /\ cur' = nextCur
       /\ UNCHANGED <<command, flags, hookLog, notifyLog, ret, lockHeld>>
       /\ UNCHANGED <<lkVars, cpVars, ckVars, ntVars, stVars, bkVars>>

FullVerifyPrimary ==
    /\ command = "full"
    /\ pc = "verify_primary"
    /\ VerifyRepo(Primary,
                  IF Len(CopyToBackends) = 0 THEN "verify_report" ELSE "verify_backends",
                  1)

FullVerifyBackend ==
    /\ command = "full"
    /\ pc = "verify_backends"
    /\ VerifyRepo(CopyToBackends[cur],
                  AfterBackend(cur, "verify_backends", "verify_report"),
                  IF cur < Len(CopyToBackends) THEN cur + 1 ELSE 1)

FullVerifyReport ==
    /\ command = "full"
    /\ pc = "verify_report"
    /\ notifyLog' = AppendIf(notifyLog, Len(staleLockRepos) > 0,
                             Notify("error", "stale_lock"))
    /\ pc' = "summary"
    /\ UNCHANGED <<command, flags, cur, errors, engineLog, hookLog, staleLockRepos,
                   ret, lockHeld, faults>>
    /\ UNCHANGED <<lkVars, cpVars, ckVars, ntVars, stVars, bkVars>>

FullSummary ==
    /\ command = "full"
    /\ pc = "summary"
    /\ \E o \in HookOutcomes(flags.dryRun) :
         IF Len(errors) = 0
         THEN hookLog' = hookLog \o Hooked(<<RunOnSuccess(o)>>)
         ELSE hookLog' = hookLog \o Hooked(<<RunOnError(o)>>)
    /\ notifyLog' = notifyLog \o FinalNotification(errors)
    /\ ret' = Verdict(errors)
    /\ pc' = "done"
    /\ lockHeld' = Release(lockHeld)
    /\ UNCHANGED <<command, flags, cur, errors, engineLog, staleLockRepos, faults>>
    /\ UNCHANGED <<lkVars, cpVars, ckVars, ntVars, stVars, bkVars>>

(***************************************************************************)
(* resticm with no subcommand (runDefaultWorkflow)                         *)
(***************************************************************************)
DefaultAfterPrimary ==
    IF ~flags.noCopy /\ Len(CopyToBackends) > 0 THEN "copy" ELSE "summary"

DefaultAcquire ==
    /\ command = "default"
    /\ AcquireStep("preflight")

DefaultPreflight ==
    /\ command = "default"
    /\ PreflightStep({"ok", "norestic", "noinit"}, "backup")

\* mutant: a pre-backup hook failure ends the default workflow's steps
DefaultAfterBackup_Abort(preFailed) == IF preFailed THEN "summary" ELSE "forget"

\* where runDefaultWorkflow goes after its backup block: the pre-backup
\* failure branch has no `return`, the forget block follows in every case
DefaultAfterBackup(preFailed) == "forget"

DefaultBackup ==
    /\ command = "default"
    /\ pc = "backup"
    /\ IF flags.noBackup
       THEN /\ pc' = DefaultAfterBackup(FALSE)
            /\ UNCHANGED <<errors, engineLog, hookLog, faults>>
       ELSE \E o \in HookOutcomes(flags.dryRun), r \in Results,
               op \in HookOutcomes(flags.dryRun), oe \in HookOutcomes(flags.dryRun) :
              /\ pc' = DefaultAfterBackup(PreBackupFailed(o))
              /\ IF PreBackupFailed(o)
                 THEN /\ faults' = faults + 1
                      /\ errors' = Append(errors, StepError("pre_backup", Primary))
                      /\ hookLog' = hookLog \o PreFailureHooks(o, oe)
                      /\ UNCHANGED engineLog
                 ELSE /\ faults + Cost(r) <= MaxFaults
                      /\ faults' = faults + Cost(r)
                      /\ engineLog' = Append(engineLog, EngineCall("backup", Primary, r))
                      /\ errors' = errors \o BackupStepErrors(r) \o Hooked(PostBackupErrors(op))
                      /\ hookLog' = hookLog \o <<RunPreBackup(o)>> \o BackupStepHooks(r, op, oe)
    /\ UNCHANGED <<command, flags, cur, notifyLog, staleLockRepos, ret, lockHeld>>
    /\ UNCHANGED <<lkVars, cpVars, ckVars, ntVars, stVars, bkVars>>

\* runDefaultWorkflow's forgetOpts for the primary
DefaultForgetOpts == ForgetOptions(flags.retention, "self", FALSE)

\* mutant: the secondaries get an empty policy
DefaultBackendForgetOpts_NoPolicy == ForgetOptions(NoRetention, "self", FALSE)

\* runDefaultWorkflow's forgetOpts inside the copy loop, built anew from
\* cfg.Retention for each backend
DefaultBackendForgetOpts == ForgetOptions(flags.retention, "self", FALSE)

DefaultForget ==
    /\ command = "default"
    /\ pc = "forget"
    /\ IF flags.noForget
       THEN SkipStep("prune")
       ELSE ForgetStep(Primary, DefaultForgetOpts, "prune")

DefaultPrune ==
    /\ command = "default"
    /\ pc = "prune"
    /\ IF flags.doPrune
       THEN EngineStep("prune", Primary, "check")
       ELSE SkipStep("check")

DefaultCheck ==
    /\ command = "default"
    /\ pc = "check"
    /\ IF flags.doCheck
       THEN EngineStep("check", Primary, DefaultAfterPrimary)
       ELSE SkipStep(DefaultAfterPrimary)

DefaultCopyBackend ==
    /\ command = "default"
    /\ pc = "copy"
    /\ LET b == CopyToBackends[cur] IN
       \E c \in Results, f \in Results, p \in Results, k \in Results :
         LET calls == BackendCalls(b, c,
                         <<ForgetCall(b, f, DefaultBackendForgetOpts)>>
                         \o (IF flags.doPrune THEN <<EngineCall("prune", b, p)>> ELSE <<>>)
                         \o (IF flags.doCheck THEN <<EngineCall("check", b, k)>> ELSE <<>>))
             failed == FailedCalls(calls)
         IN /\ c = "fail" => (f = "ok" /\ p = "ok" /\ k = "ok")
            /\ ~flags.doPrune => p = "ok"
            /\ ~flags.doCheck => k = "ok"
            /\ faults + Len(failed) <= MaxFaults
            /\ faults' = faults + Len(failed)
            /\ engineLog' = engineLog \o calls
            /\ errors' = errors \o failed
    /\ pc' = AfterBackend(cur, "copy", "summary")
    /\ cur' = IF cur < Len(CopyToBackends) THEN cur + 1 ELSE 1
    /\ UNCHANGED <<command, flags, hookLog, notifyLog, staleLockRepos, ret, lockHeld>>
    /\ UNCHANGED <<lkVars, cpVars, ckVars, ntVars, stVars, bkVars>>

DefaultSummary ==
    /\ command = "default"
    /\ pc = "summary"
    /\ notifyLog' = notifyLog \o FinalNotification(errors)
    /\ ret' = Verdict(errors)
    /\ pc' = "done"
    /\ lockHeld' = Release(lockHeld)
    /\ UNCHANGED <<command, flags, cur, errors, engineLog, hookLog, staleLockRepos, faults>>
    /\ UNCHANGED <<lkVars, cpVars, ckVars, ntVars, stVars, bkVars>>

(***************************************************************************)
(* resticm forget (runForget)                                              *)
(***************************************************************************)
\* mutant: --primary-only is not looked at
AfterPrimary_AllBackends(loop) == loop

\* where runForget, runPrune and runCheck go after the primary:
\* `if !primaryOnly && len(cfg.CopyToBackends) > 0`
AfterPrimary(loop) ==
    IF ~flags.primaryOnly /\ Len(CopyToBackends) > 0 THEN loop ELSE "summary"

\* runForget's opts, built once and passed to every forgetOnBackend call
ForgetCmdOpts ==
    ForgetOptions(flags.retention, HostFilter(flags.allHosts), flags.prune)

ForgetAcquire ==
    /\ command = "forget"
    /\ AcquireStep("forget")

\* the context selects one secondary backend: forget runs on it alone
ForgetOnActive ==
    /\ command = "forget"
    /\ pc = "forget"
    /\ flags.activeBackend # Primary
    /\ IF flags.activeBackend = NoSuchBackend
       THEN /\ ret' = ReturnErr("nobackend", 0)
            /\ UNCHANGED <<engineLog, notifyLog, faults>>
       ELSE \E r \in Results :
              /\ faults' = faults + Cost(r)
              /\ engineLog' = Append(engineLog,
                     ForgetCall(flags.activeBackend, r, ForgetCmdOpts))
              /\ notifyLog' = AppendIf(notifyLog, r = "fail",
                     Notify("error", "forget_failed"))
              /\ ret' = IF r = "fail" THEN ReturnErr("engine", 0) ELSE ReturnNil
    /\ pc' = "done"
    /\ lockHeld' = Release(lockHeld)
    /\ UNCHANGED <<command, flags, cur, errors, hookLog, staleLockRepos>>
    /\ UNCHANGED <<lkVars, cpVars, ckVars, ntVars, stVars, bkVars>>

ForgetOnPrimary ==
    /\ command = "forget"
    /\ pc = "forget"
    /\ flags.activeBackend = Primary
    /\ ForgetStep(Primary, ForgetCmdOpts, AfterPrimary("forget_backends"))

ForgetOnBackend ==
    /\ command = "forget"
    /\ pc = "forget_backends"
    /\ \E r \in Results :
         /\ faults + Cost(r) <= MaxFaults
         /\ faults' = faults + Cost(r)
         /\ engineLog' = Append(engineLog,
                ForgetCall(CopyToBackends[cur], r, ForgetCmdOpts))
         /\ errors' = AppendIf(errors, r = "fail",
                StepError("forget", CopyToBackends[cur]))
    /\ pc' = AfterBackend(cur, "forget_backends", "summary")
    /\ cur' = IF cur < Len(CopyToBackends) THEN cur + 1 ELSE 1
    /\ UNCHANGED <<command, flags, hookLog, notifyLog, staleLockRepos, ret, lockHeld>>
    /\ UNCHANGED <<lkVars, cpVars, ckVars, ntVars, stVars, bkVars>>

ForgetSummary ==
    /\ command = "forget"
    /\ pc = "summary"
    /\ notifyLog' = AppendIf(notifyLog, Len(errors) > 0, Notify("error", "forget_failed"))
    /\ ret' = Verdict(errors)
    /\ pc' = "done"
    /\ lockHeld' = Release(lockHeld)
    /\ UNCHANGED <<command, flags, cur, errors, engineLog, hookLog, staleLockRepos, faults>>
    /\ UNCHANGED <<lkVars, cpVars, ckVars, ntVars, stVars, bkVars>>

(***************************************************************************)
(* resticm prune (runPrune) and resticm check (runCheck)                   *)
(***************************************************************************)
\* the context selects one secondary backend: the operation runs on it alone
OnActive(op, title) ==
    /\ flags.activeBackend # Primary
    /\ IF flags.activeBackend = NoSuchBackend
       THEN /\ ret' = ReturnErr("nobackend", 0)
            /\ UNCHANGED <<engineLog, notifyLog, faults>>
       ELSE \E r \in Results :
              /\ faults' = faults + Cost(r)
              /\ engineLog' = Append(engineLog, EngineCall(op, flags.activeBackend, r))
              /\ notifyLog' = AppendIf(notifyLog, r = "fail", Notify("error", title))
              /\ ret' = IF r = "fail" THEN ReturnErr("engine", 0) ELSE ReturnNil
    /\ pc' = "done"
    /\ lockHeld' = Release(lockHeld)
    /\ UNCHANGED <<command, flags, cur, errors, hookLog, staleLockRepos>>
    /\ UNCHANGED <<lkVars, cpVars, ckVars, ntVars, stVars, bkVars>>

\* one turn of `for _, backendName := range cfg.CopyToBackends`
OnBackend(op, loop) ==
    /\ \E r \in Results :
         /\ faults + Cost(r) <= MaxFaults
         /\ faults' = faults + Cost(r)
         /\ engineLog' = Append(engineLog, EngineCall(op, CopyToBackends[cur], r))
         /\ errors' = AppendIf(errors, r = "fail", StepError(op, CopyToBackends[cur]))
    /\ pc' = AfterBackend(cur, loop, "summary")
    /\ cur' = IF cur < Len(CopyToBackends) THEN cur + 1 ELSE 1
    /\ UNCHANGED <<command, flags, hookLog, notifyLog, staleLockRepos, ret, lockHeld>>
    /\ UNCHANGED <<lkVars, cpVars, ckVars, ntVars, stVars, bkVars>>

\* the notification and the count error when some repository failed
CommandSummary(title) ==
    /\ notifyLog' = AppendIf(notifyLog, Len(errors) > 0, Notify("error", title))
    /\ ret' = Verdict(errors)
    /\ pc' = "done"
    /\ lockHeld' = Release(lockHeld)
    /\ UNCHANGED <<command, flags, cur, errors, engineLog, hookLog, staleLockRepos, faults>>
    /\ UNCHANGED <<lkVars, cpVars, ckVars, ntVars, stVars, bkVars>>

PruneAcquire ==
    /\ command = "prune"
    /\ AcquireStep("prune")

PruneOnActive ==
    /\ command = "prune"
    /\ pc = "prune"
    /\ OnActive("prune", "prune_failed")

PruneOnPrimary ==
    /\ command = "prune"
    /\ pc = "prune"
    /\ flags.activeBackend = Primary
    /\ EngineStep("prune", Primary, AfterPrimary("prune_backends"))

PruneOnBackend ==
    /\ command = "prune"
    /\ pc = "prune_backends"
    /\ OnBackend("prune", "prune_backends")

PruneSummary ==
    /\ command = "prune"
    /\ pc = "summary"
    /\ CommandSummary("prune_failed")

CheckAcquire ==
    /\ command = "check"
    /\ AcquireStep("check")

CheckOnActive ==
    /\ command = "check"
    /\ pc = "check"
    /\ OnActive("check", "check_failed")

CheckOnPrimary ==
    /\ command = "check"
    /\ pc = "check"
    /\ flags.activeBackend = Primary
    /\ EngineStep("check", Primary, AfterPrimary("check_backends"))

CheckOnBackend ==
    /\ command = "check"
    /\ pc = "check_backends"
    /\ OnBackend("check", "check_backends")

CheckSummary ==
    /\ command = "check"
    /\ pc = "summary"
    /\ CommandSummary("check_failed")

(***************************************************************************)
(* Executor.Copy                                                           *)
(* A repository location is a sequence of characters.                      *)
(***************************************************************************)
Repositories ==
    {<<"s", "3", ":", "a">>, <<"s", "3", ":", "b">>, <<"s", "3">>,
     <<"S", "3", ":", "a">>, <<"b", "2", ":", "a">>, <<"/", "a">>,
     <<"x", "s", "3", ":">>}

AccessKeys == {"", "AK1", "AK2"}
Passwords == {"", "pw"}

CopyOptions ==
    [FromRepository : Repositories, ToRepository : Repositories,
     FromAWSAccessKeyID : AccessKeys, ToAWSAccessKeyID : AccessKeys,
     FromPassword : Passwords]

\* strings.HasPrefix
HasPrefix(str, prefix) ==
    /\ Len(str) >= Len(prefix)
    /\ SubSeq(str, 1, Len(prefix)) = prefix

isS3Repository(repo) == HasPrefix(repo, <<"s", "3", ":">>)

\* mutant: no copy is ever taken for a cross-account one
isCrossAccountS3_Never(fromRepo, toRepo, fromKey, toKey) == FALSE

isCrossAccountS3(fromRepo, toRepo, fromKey, toKey) ==
    IF ~isS3Repository(fromRepo) \/ ~isS3Repository(toRepo)
    THEN FALSE
    ELSE fromKey # "" /\ toKey # "" /\ fromKey # toKey

\* the access key Copy leaves in e.Env before it runs the engine
CopyEnvKey(opts, env) ==
    IF isS3Repository(opts.FromRepository) /\ opts.FromAWSAccessKeyID # ""
    THEN opts.FromAWSAccessKeyID
    ELSE env

\* InitOptions; the fields of the destination are those of no Copy call
InitOptions ==
    [FromRepository : {<<>>, <<"s", "3", ":", "a">>, <<"/", "a">>},
     ToRepository : {<<>>},
     FromAWSAccessKeyID : AccessKeys, ToAWSAccessKeyID : {""},
     FromPassword : Passwords, CopyChunkerParams : BOOLEAN]

\* the name os.CreateTemp("", "resticm-pwd-*") gives the file
PasswordFile == "resticm-pwd"

\* createTempPasswordFile: the file is created and written, or CreateTemp
\* fails, or WriteString fails
TempOutcomes == {"created", "createfail", "writefail"}

\* mutant: the file is left behind
RemoveFile_Kept(files, f) == files

\* os.Remove of a file this call created
RemoveFile(files, f) == files \ {f}

\* createTempPasswordFile: its error and the files that exist afterwards
createTempPasswordFile(files, outcome) ==
    IF outcome = "created"
    THEN [err |-> FALSE, files |-> files \cup {PasswordFile}]
    ELSE IF outcome = "createfail"
    THEN [err |-> TRUE, files |-> files]
    ELSE [err |-> TRUE, files |-> RemoveFile(files \cup {PasswordFile}, PasswordFile)]

\* the call passes the source password through a temporary file
NeedsPasswordFile(op, opts) ==
    IF op = "copy"
    THEN opts.FromPassword # ""
    ELSE opts.CopyChunkerParams /\ opts.FromRepository # <<>> /\ opts.FromPassword # ""

\* the access key InitWithOptions leaves in e.Env before it runs the engine
InitEnvKey(opts, env) ==
    IF opts.CopyChunkerParams /\ opts.FromRepository # <<>>
       /\ opts.FromAWSAccessKeyID # ""
    THEN opts.FromAWSAccessKeyID
    ELSE env

\* the state in which no Copy call is under way
CopyIdle ==
    /\ cp_opts = [FromRepository |-> <<>>, ToRepository |-> <<>>,
                  FromAWSAccessKeyID |-> "", ToAWSAccessKeyID |-> "",
                  FromPassword |-> ""]
    /\ cp_env = ""
    /\ cp_runs = <<>>
    /\ cp_ret = "none"
    /\ cp_op = "copy"
    /\ cp_pc = "idle"
    /\ cp_files = {}

\* the temporary password file of a call, when it needs one: the call
\* returns the "failed to create temp password file" error or goes on to
\* the engine with the environment key envKey
PreparePasswordFile(envKey) ==
    IF NeedsPasswordFile(cp_op, cp_opts)
    THEN \E o \in TempOutcomes :
           LET t == createTempPasswordFile(cp_files, o) IN
           /\ cp_files' = t.files
           /\ IF t.err
              THEN /\ cp_ret' = "tempfile"
                   /\ cp_pc' = "returned"
                   /\ cp_env' = cp_env
              ELSE /\ cp_ret' = cp_ret
                   /\ cp_pc' = "run"
                   /\ cp_env' = envKey
    ELSE /\ cp_files' = cp_files
         /\ cp_ret' = cp_ret
         /\ cp_pc' = "run"
         /\ cp_env' = envKey

\* destExecutor.Copy(copyOpts) up to the engine call: the cross-account
\* check, the temporary password file, the credentials
Copy ==
    /\ cp_op = "copy"
    /\ cp_pc = "call"
    /\ IF isCrossAccountS3(cp_opts.FromRepository, cp_opts.ToRepository,
                           cp_opts.FromAWSAccessKeyID, cp_opts.ToAWSAccessKeyID)
       THEN /\ cp_ret' = "CrossAccountS3Error"
            /\ cp_pc' = "returned"
            /\ UNCHANGED <<cp_env, cp_files>>
       ELSE PreparePasswordFile(CopyEnvKey(cp_opts, cp_env))
    /\ UNCHANGED <<cp_opts, cp_runs, cp_op>>
    /\ UNCHANGED <<wfVars, lkVars, ckVars, ntVars, stVars, bkVars>>

\* executor.InitWithOptions(opts) up to the engine call
InitWithOptions ==
    /\ cp_op = "init"
    /\ cp_pc = "call"
    /\ PreparePasswordFile(InitEnvKey(cp_opts, cp_env))
    /\ UNCHANGED <<cp_opts, cp_runs, cp_op>>
    /\ UNCHANGED <<wfVars, lkVars, ckVars, ntVars, stVars, bkVars>>

\* `return e.Run(args...)` of Copy and InitWithOptions, followed by the
\* deferred os.Remove(tmpFile) when the call made a password file
CopyRun ==
    /\ cp_pc = "run"
    /\ \E exit \in ExitCodes :
         /\ cp_runs' = Append(cp_runs,
                [cmd |-> cp_op, from |-> cp_opts.FromRepository,
                 key |-> cp_env, pwfiles |-> cp_files])
         /\ cp_ret' = IF exit = 0 THEN "nil" ELSE "exit"
    /\ cp_files' = IF NeedsPasswordFile(cp_op, cp_opts)
                   THEN RemoveFile(cp_files, PasswordFile)
                   ELSE cp_files
    /\ cp_pc' = "returned"
    /\ UNCHANGED <<cp_opts, cp_env, cp_op>>
    /\ UNCHANGED <<wfVars, lkVars, ckVars, ntVars, stVars, bkVars>>

(***************************************************************************)
(* The check steps and the deep-check tracker                              *)
(* CheckSpec follows the check steps of successive command runs on the     *)
(* repositories of CheckOrder; the state files of the tracker persist      *)
(* from one run to the next and days pass between runs.                    *)
(***************************************************************************)
\* the repositories whose check steps are followed, in the order a command
\* visits them: the primary, then the first two copy backends
CheckOrder == <<Primary, CopyToBackends[1], CopyToBackends[2]>>
CheckRepos == {CheckOrder[i] : i \in 1..Len(CheckOrder)}

\* the run whose check steps are taken: `resticm full`, the default
\* workflow with --check, or `resticm check`; deep is --deep, auto is
\* --auto (a flag of `resticm check` only)
CheckKinds ==
    {[kind |-> k, deep |-> d, auto |-> a] :
        k \in {"full", "default", "check"}, d \in BOOLEAN, a \in BOOLEAN}

CheckRuns == {c \in CheckKinds : c.auto => c.kind = "check"}

\* cfg.DeepCheckIntervalDays
IntervalDays == 0..MaxInterval

\* NewDeepCheckTracker: the state file of a repository is named after the
\* first four bytes of the SHA-256 of its location; two locations may
\* share them
ShortHashes ==
    {[t \in CheckRepos |-> t],
     [t \in CheckRepos |-> IF t = CopyToBackends[1] THEN Primary ELSE t]}

\* what a state file path holds
NoFile == [kind |-> "absent", Repository |-> Primary, LastCheck |-> 0]
Unreadable == [kind |-> "unreadable", Repository |-> Primary, LastCheck |-> 0]

\* mutant: the stored identity is not compared with the repository
LastCheck_AnyRepository(file, repository) ==
    IF file.kind = "absent" THEN [zero |-> TRUE, time |-> 0, err |-> FALSE]
    ELSE IF file.kind = "unreadable" THEN [zero |-> TRUE, time |-> 0, err |-> TRUE]
    ELSE [zero |-> FALSE, time |-> file.LastCheck, err |-> FALSE]

\* DeepCheckTracker.LastCheck: zero time for a missing file and for a file
\* of another repository, an error for a file that cannot be read or parsed
LastCheck(file, repository) ==
    IF file.kind = "absent" THEN [zero |-> TRUE, time |-> 0, err |-> FALSE]
    ELSE IF file.kind = "unreadable" THEN [zero |-> TRUE, time |-> 0, err |-> TRUE]
    ELSE IF file.Repository # repository THEN [zero |-> TRUE, time |-> 0, err |-> FALSE]
    ELSE [zero |-> FALSE, time |-> file.LastCheck, err |-> FALSE]

\* mutant: the deadline itself already counts as elapsed
ShouldRunDeepCheck_AtDeadline(file, repository, intervalDays, now) ==
    IF intervalDays <= 0 THEN FALSE
    ELSE LET last == LastCheck(file, repository) IN
         IF last.err \/ last.zero THEN TRUE
         ELSE now >= last.time + intervalDays

\* DeepCheckTracker.ShouldRunDeepCheck; time is counted in days
ShouldRunDeepCheck(file, repository, intervalDays, now) ==
    IF intervalDays <= 0 THEN FALSE
    ELSE LET last == LastCheck(file, repository) IN
         IF last.err \/ last.zero THEN TRUE
         ELSE now > last.time + intervalDays

\* the DeepCheckState that DeepCheckTracker.RecordCheck marshals
RecordCheck(repository, now) ==
    [kind |-> "state", Repository |-> repository, LastCheck |-> now]

\* os.MkdirAll / os.WriteFile in RecordCheck: the file is written, or the
\* call fails before touching it, or it fails after truncating it
WriteOutcomes == {"written", "failed", "truncated"}

WriteFile(old, new, outcome) ==
    IF outcome = "written" THEN new
    ELSE IF outcome = "failed" THEN old
    ELSE Unreadable

\* whether the step's check reads all data: shouldDeep of runFull,
\* `ReadData: deep` of runDefaultWorkflow, doDeepCheck of checkOnBackend
ShouldDeep(run, intervalDays, trackerOk, file, repository, now) ==
    IF run.kind = "full"
    THEN IF ~run.deep /\ intervalDays > 0
         THEN (IF trackerOk
               THEN ShouldRunDeepCheck(file, repository, intervalDays, now)
               ELSE run.deep)
         ELSE run.deep
    ELSE IF run.kind = "default"
    THEN run.deep
    ELSE IF run.auto /\ ~run.deep
    THEN (IF trackerOk /\ ShouldRunDeepCheck(file, repository, intervalDays, now)
          THEN TRUE
          ELSE run.deep)
    ELSE run.deep

\* Executor.Check: the arguments of the engine call
CheckArgs(readData) ==
    IF readData THEN <<"check", "--read-data">> ELSE <<"check">>

\* mutant: the tracker records every check step
ShouldRecord_Always(run, result, shouldDeep) == run.kind # "default"

\* whether the step goes on to tracker.RecordCheck(): in runFull and
\* checkOnBackend after a check that succeeded with shouldDeep set; the
\* default workflow has no such call
ShouldRecord(run, result, shouldDeep) ==
    run.kind # "default" /\ result = "ok" /\ shouldDeep

NoStep ==
    [step |-> FALSE, pos |-> 0, target |-> Primary, args |-> <<>>,
     result |-> "ok", before |-> NoFile]

CheckIdle ==
    /\ ck_run = [kind |-> "full", deep |-> FALSE, auto |-> FALSE]
    /\ ck_interval = 0
    /\ ck_hash = [t \in CheckRepos |-> t]
    /\ ck_files = [p \in CheckRepos |-> NoFile]
    /\ ck_now = 0
    /\ ck_pos = 0
    /\ ck_last = NoStep

\* one check step: the deep decision, the engine call, the record
CheckStep ==
    /\ ck_pos \in 1..Len(CheckOrder)
    /\ LET t == CheckOrder[ck_pos]
           file == ck_files[ck_hash[t]]
       IN \E trackerOk \in BOOLEAN, r \in Results, w \in WriteOutcomes :
            LET shouldDeep ==
                    ShouldDeep(ck_run, ck_interval, trackerOk, file, t, ck_now)
            IN /\ ck_last' = [step |-> TRUE, pos |-> ck_pos, target |-> t,
                              args |-> CheckArgs(shouldDeep), result |-> r,
                              before |-> file]
               /\ ck_files' =
                    IF ShouldRecord(ck_run, r, shouldDeep) /\ trackerOk
                    THEN [ck_files EXCEPT
                            ![ck_hash[t]] = WriteFile(file, RecordCheck(t, ck_now), w)]
                    ELSE ck_files
    /\ ck_pos' = ck_pos + 1
    /\ UNCHANGED <<ck_run, ck_interval, ck_hash, ck_now>>
    /\ UNCHANGED <<wfVars, lkVars, cpVars, ntVars, stVars, bkVars>>

\* the copy to a backend failed: `continue`, the backend gets no check
CheckSkipped ==
    /\ ck_pos \in 2..Len(CheckOrder)
    /\ ck_run.kind \in {"full", "default"}
    /\ ck_pos' = ck_pos + 1
    /\ UNCHANGED <<ck_run, ck_interval, ck_hash, ck_files, ck_now, ck_last>>
    /\ UNCHANGED <<wfVars, lkVars, cpVars, ntVars, stVars, bkVars>>

\* the run is over; some days later another command is run
CheckNextRun ==
    /\ ck_pos = Len(CheckOrder) + 1
    /\ ck_run' \in CheckRuns
    /\ \E d \in 0..(MaxDay - ck_now) : ck_now' = ck_now + d
    /\ ck_pos' = 1
    /\ ck_last' = NoStep
    /\ UNCHANGED <<ck_interval, ck_hash, ck_files>>
    /\ UNCHANGED <<wfVars, lkVars, cpVars, ntVars, stVars, bkVars>>

(***************************************************************************)
(* The notifier                                                            *)
(* NotifySpec follows the notifier call that ends a runBackup: the         *)
(* notifier is built by GetNotifier from the settings and --notify-success *)
(* and is called whether or not the run is a dry run; the providers are    *)
(* tried one after the other.                                              *)
(***************************************************************************)
\* ProviderConfig.Type: two types createProvider knows, one it does not
ProviderTypes == {"slack", "ntfy", "carrier-pigeon"}

ProviderLists == UNION {[1..k -> ProviderTypes] : k \in 0..MaxProviders}

\* cfg.Notifications
NotificationSettings ==
    [Enabled : BOOLEAN, NotifyOnSuccess : BOOLEAN, NotifyOnError : BOOLEAN,
     Providers : ProviderLists]

\* the run that calls the notifier: its --dry-run and --notify-success
\* flags and the result of its backup
NotifyingRuns ==
    [dryRun : BOOLEAN, notifySuccess : BOOLEAN, backup : Results]

\* createProvider: nil for a type it does not know
createProvider(type) == type \in {"slack", "ntfy"}

\* GetNotifier, then NewNotifier: the notifier's fields
GetNotifier(settings, notifySuccess) ==
    [enabled |-> settings.Enabled,
     onSuccess |-> settings.NotifyOnSuccess \/ notifySuccess,
     onError |-> settings.NotifyOnError,
     providers |-> SelectSeq(settings.Providers, createProvider)]

\* the call runBackup ends with
ClosingCall(run) == IF run.backup = "ok" THEN "success" ELSE "error"

\* the guard of NotifySuccess / NotifyError
Muted(n, status) ==
    IF status = "success"
    THEN ~n.enabled \/ ~n.onSuccess
    ELSE ~n.enabled \/ ~n.onError

NoError == ""

\* mutant: send swallows the providers' errors
SendResult_Swallowed(lastErr) == NoError

\* `return lastErr` of Notifier.send
SendResult(lastErr) == lastErr

NotifyIdle ==
    /\ nt_run = [dryRun |-> FALSE, notifySuccess |-> FALSE, backup |-> "ok"]
    /\ nt_cfg = [Enabled |-> FALSE, NotifyOnSuccess |-> FALSE,
                 NotifyOnError |-> FALSE, Providers |-> <<>>]
    /\ nt_pc = "idle"
    /\ nt_pos = 1
    /\ nt_lastErr = NoError
    /\ nt_sent = <<>>
    /\ nt_ret = "none"

\* NotifySuccess / NotifyError up to the call of send
NotifyCall ==
    /\ nt_pc = "idle"
    /\ IF Muted(GetNotifier(nt_cfg, nt_run.notifySuccess), ClosingCall(nt_run))
       THEN /\ nt_pc' = "returned"
            /\ nt_ret' = NoError
       ELSE /\ nt_pc' = "send"
            /\ nt_ret' = nt_ret
    /\ UNCHANGED <<nt_run, nt_cfg, nt_pos, nt_lastErr, nt_sent>>
    /\ UNCHANGED <<wfVars, lkVars, cpVars, ckVars, stVars, bkVars>>

\* one turn of the loop of Notifier.send: provider.Send(msg)
ProviderSend ==
    /\ nt_pc = "send"
    /\ LET providers == GetNotifier(nt_cfg, nt_run.notifySuccess).providers IN
       /\ nt_pos <= Len(providers)
       /\ \E r \in Results :
            /\ nt_sent' = Append(nt_sent,
                   [provider |-> providers[nt_pos],
                    status |-> ClosingCall(nt_run), result |-> r])
            /\ nt_lastErr' = IF r = "fail" THEN providers[nt_pos] ELSE nt_lastErr
    /\ nt_pos' = nt_pos + 1
    /\ UNCHANGED <<nt_run, nt_cfg, nt_pc, nt_ret>>
    /\ UNCHANGED <<wfVars, lkVars, cpVars, ckVars, stVars, bkVars>>

\* the end of Notifier.send, whose result NotifySuccess / NotifyError return
NotifyReturn ==
    /\ nt_pc = "send"
    /\ nt_pos > Len(GetNotifier(nt_cfg, nt_run.notifySuccess).providers)
    /\ nt_ret' = SendResult(nt_lastErr)
    /\ nt_pc' = "returned"
    /\ UNCHANGED <<nt_run, nt_cfg, nt_pos, nt_lastErr, nt_sent>>
    /\ UNCHANGED <<wfVars, lkVars, cpVars, ckVars, stVars, bkVars>>

(***************************************************************************)
(* StartSpec: the opening of a command, from its entry to the moment it    *)
(* holds the process-exclusivity lock or has returned without it.          *)
(***************************************************************************)
Commands == {"backup", "forget", "prune", "check", "copy", "full", "default"}

\* logging.Level: DEBUG, INFO, WARN, ERROR
DEBUG == 0
INFO == 1
WARN == 2
ERROR == 3
Levels == {DEBUG, INFO, WARN, ERROR}

\* what a command meets when it starts: GetConfig() returned a configuration,
\* the level of the global logger, another instance holds the lock, and
\* len(cfg.CopyToBackends) > 0
StartRuns ==
    [command : Commands, cfg : BOOLEAN, level : Levels, held : BOOLEAN,
     copyTo : BOOLEAN]

\* Logger.log: a line below the logger's level is dropped, any other is
\* written to every output
log(l, level, msg, out) ==
    IF level < l THEN out ELSE Append(out, [level |-> level, msg |-> msg])

\* LogCommandStart / LogCommandEnd of runFull and runForget; they are called
\* with the command and its flags and are taken to write one INFO line each
LogsCommand(c) == c \in {"full", "forget"}

LogCommandStart(c, l, out) ==
    IF LogsCommand(c) THEN log(l, INFO, "command start", out) ELSE out

LogCommandEnd(c, l, out) ==
    IF LogsCommand(c) THEN log(l, INFO, "command end", out) ELSE out

\* what the command writes between GetConfig() and lock.Acquire()
BeforeAcquire(c, l, out) ==
    IF c = "default" THEN log(l, INFO, "Starting default workflow", out)
    ELSE LogCommandStart(c, l, out)

StartIdle ==
    /\ st_run = [command |-> "backup", cfg |-> TRUE, level |-> INFO,
                 held |-> FALSE, copyTo |-> TRUE]
    /\ st_pc = "idle"
    /\ st_log = <<>>
    /\ st_acquired = FALSE
    /\ st_ret = "none"

\* the command from its entry up to lock.Acquire()
CommandStart ==
    /\ st_pc = "start"
    /\ IF ~st_run.cfg
       THEN /\ st_ret' = "configuration not loaded"
            /\ st_pc' = "returned"
            /\ UNCHANGED st_log
       ELSE IF st_run.command = "copy" /\ ~st_run.copyTo
       THEN /\ st_log' = log(st_run.level, INFO,
                             "No secondary backends configured for copy.",
                             st_log)
            /\ st_ret' = "nil"
            /\ st_pc' = "returned"
       ELSE /\ st_log' = BeforeAcquire(st_run.command, st_run.level, st_log)
            /\ st_pc' = "acquire"
            /\ UNCHANGED st_ret
    /\ UNCHANGED <<st_run, st_acquired>>
    /\ UNCHANGED <<wfVars, lkVars, cpVars, ckVars, ntVars, bkVars>>

\* lock.Acquire() and, when it fails, the return through the deferred calls
StartAcquire ==
    /\ st_pc = "acquire"
    /\ IF st_run.held
       THEN /\ st_ret' = "another instance is already running"
            /\ st_log' = LogCommandEnd(st_run.command, st_run.level, st_log)
            /\ st_pc' = "returned"
            /\ UNCHANGED st_acquired
       ELSE /\ st_acquired' = TRUE
            /\ st_pc' = "body"
            /\ UNCHANGED <<st_ret, st_log>>
    /\ UNCHANGED st_run
    /\ UNCHANGED <<wfVars, lkVars, cpVars, ckVars, ntVars, bkVars>>

\* the command under the lock, as far as its log and its return go
CommandBody ==
    /\ st_pc = "body"
    /\ \E r \in {"nil", "failed"} :
          /\ st_ret' = r
          /\ st_log' = LogCommandEnd(st_run.command, st_run.level,
                           IF r = "nil" THEN st_log
                           ELSE log(st_run.level, ERROR, "failed", st_log))
    /\ st_pc' = "returned"
    /\ UNCHANGED <<st_run, st_acquired>>
    /\ UNCHANGED <<wfVars, lkVars, cpVars, ckVars, ntVars, bkVars>>

(***************************************************************************)
(* LookupSpec: the loops over cfg.CopyToBackends, one iteration per step,  *)
(* for a configuration whose copy_to_backends may list names that          *)
(* cfg.Backends does not hold.  A missing name reads as the zero           *)
(* BackendConfig, whose Repository is empty.                               *)
(***************************************************************************)
LoopCommands == {"default", "full", "forget", "prune", "check", "copy"}

\* which names of cfg.CopyToBackends have an entry in cfg.Backends
KnownBackends == [1..NumSecondaries -> BOOLEAN]

\* the empty repository location
NoRepository == <<>>

\* backend, ok := cfg.Backends[backendName]
Backends(known, name) ==
    IF known[name] THEN [ok |-> TRUE, Repository |-> <<"/", name>>]
    ELSE [ok |-> FALSE, Repository |-> NoRepository]

\* the command, the backends map, and the flags its loop reads:
\* doPrune / doCheck of the default workflow, cfg.VerifyNoLocks of runFull
LookupRuns ==
    {r \in [command : LoopCommands, known : KnownBackends, doPrune : BOOLEAN,
            doCheck : BOOLEAN, verifyNoLocks : BOOLEAN] :
        /\ r.command # "default" => (~r.doPrune /\ ~r.doCheck)
        /\ r.command # "full" => ~r.verifyNoLocks}

\* one engine invocation by an executor built with NewExecutor(repository, ...)
BackendCall(op, name, repository, r) ==
    [op |-> op, name |-> name, repository |-> repository, result |-> r]

\* the calls of an iteration that came back with an error
FailedOf(calls) == SelectSeq(calls, LAMBDA c : c.result = "fail")

\* copy, then the maintenance chain unless the copy failed (`continue`)
CopyAndChain(name, repository, c, chain) ==
    IF c = "fail" THEN <<BackendCall("copy", name, repository, c)>>
    ELSE <<BackendCall("copy", name, repository, c)>> \o chain

LookupIdle ==
    /\ bk_run = [command |-> "default", known |-> [i \in 1..NumSecondaries |-> TRUE],
                 doPrune |-> FALSE, doCheck |-> FALSE, verifyNoLocks |-> FALSE]
    /\ bk_pc = "idle"
    /\ bk_pos = 1
    /\ bk_calls = <<>>
    /\ bk_errors = <<>>
    /\ bk_ret = "none"

\* the next position of a loop over cfg.CopyToBackends
LoopAdvance(after) ==
    /\ bk_pos' = IF bk_pos < Len(CopyToBackends) THEN bk_pos + 1 ELSE 1
    /\ bk_pc' = IF bk_pos < Len(CopyToBackends) THEN bk_pc ELSE after

\* runDefaultWorkflow: one iteration of the copy loop
LookupDefault ==
    /\ bk_run.command = "default"
    /\ bk_pc = "loop"
    /\ LET name == CopyToBackends[bk_pos]
           backend == Backends(bk_run.known, name)
       IN IF ~backend.ok
          THEN UNCHANGED <<bk_calls, bk_errors>>
          ELSE \E c \in Results, f \in Results, p \in Results, k \in Results :
                 LET calls == CopyAndChain(name, backend.Repository, c,
                        <<BackendCall("forget", name, backend.Repository, f)>>
                        \o (IF bk_run.doPrune
                            THEN <<BackendCall("prune", name, backend.Repository, p)>>
                            ELSE <<>>)
                        \o (IF bk_run.doCheck
                            THEN <<BackendCall("check", name, backend.Repository, k)>>
                            ELSE <<>>))
                 IN /\ c = "fail" => (f = "ok" /\ p = "ok" /\ k = "ok")
                    /\ ~bk_run.doPrune => p = "ok"
                    /\ ~bk_run.doCheck => k = "ok"
                    /\ bk_calls' = bk_calls \o calls
                    /\ bk_errors' = bk_errors \o FailedOf(calls)
    /\ LoopAdvance("done")
    /\ UNCHANGED <<bk_run, bk_ret>>
    /\ UNCHANGED <<wfVars, lkVars, cpVars, ckVars, ntVars, stVars>>

\* runFull: one iteration of the copy loop
LookupFull ==
    /\ bk_run.command = "full"
    /\ bk_pc = "loop"
    /\ LET name == CopyToBackends[bk_pos]
           backend == Backends(bk_run.known, name)
       IN \E c \in Results, f \in Results, p \in Results, k \in Results :
            LET calls == CopyAndChain(name, backend.Repository, c,
                   <<BackendCall("forget", name, backend.Repository, f),
                     BackendCall("prune", name, backend.Repository, p),
                     BackendCall("check", name, backend.Repository, k)>>)
            IN /\ c = "fail" => (f = "ok" /\ p = "ok" /\ k = "ok")
               /\ bk_calls' = bk_calls \o calls
               /\ bk_errors' = bk_errors \o FailedOf(calls)
    /\ LoopAdvance(IF bk_run.verifyNoLocks THEN "verify" ELSE "done")
    /\ UNCHANGED <<bk_run, bk_ret>>
    /\ UNCHANGED <<wfVars, lkVars, cpVars, ckVars, ntVars, stVars>>

\* runFull: one iteration of the lock verification loop; a list that could
\* not be obtained is a warning, a lock of this host an error
LookupFullVerify ==
    /\ bk_run.command = "full"
    /\ bk_pc = "verify"
    /\ LET name == CopyToBackends[bk_pos]
           backend == Backends(bk_run.known, name)
       IN \E a \in {"fail", "own", "free"} :
            LET call == BackendCall("locks", name, backend.Repository,
                                    IF a = "fail" THEN "fail" ELSE "ok")
            IN /\ bk_calls' = Append(bk_calls, call)
               /\ bk_errors' = IF a = "own" THEN Append(bk_errors, call)
                               ELSE bk_errors
    /\ LoopAdvance("done")
    /\ UNCHANGED <<bk_run, bk_ret>>
    /\ UNCHANGED <<wfVars, lkVars, cpVars, ckVars, ntVars, stVars>>

\* runForget, runPrune, runCheck: one iteration of the loop over the
\* copy backends
LookupMaintenance ==
    /\ bk_run.command \in {"forget", "prune", "check"}
    /\ bk_pc = "loop"
    /\ LET name == CopyToBackends[bk_pos]
           backend == Backends(bk_run.known, name)
       IN IF ~backend.ok
          THEN UNCHANGED <<bk_calls, bk_errors>>
          ELSE \E r \in Results :
                 LET call == BackendCall(bk_run.command, name,
                                         backend.Repository, r)
                 IN /\ bk_calls' = Append(bk_calls, call)
                    /\ bk_errors' = bk_errors \o FailedOf(<<call>>)
    /\ LoopAdvance("done")
    /\ UNCHANGED <<bk_run, bk_ret>>
    /\ UNCHANGED <<wfVars, lkVars, cpVars, ckVars, ntVars, stVars>>

\* runCopy: "Validate backends exist", before the first copy
LookupCopyValidate ==
    /\ bk_run.command = "copy"
    /\ bk_pc = "validate"
    /\ IF \E i \in 1..Len(CopyToBackends) :
              ~Backends(bk_run.known, CopyToBackends[i]).ok
       THEN bk_ret' = "backend not found in configuration" /\ bk_pc' = "done"
       ELSE bk_pc' = "loop" /\ UNCHANGED bk_ret
    /\ UNCHANGED <<bk_run, bk_pos, bk_calls, bk_errors>>
    /\ UNCHANGED <<wfVars, lkVars, cpVars, ckVars, ntVars, stVars>>

\* runCopy: one iteration of the copy loop
LookupCopy ==
    /\ bk_run.command = "copy"
    /\ bk_pc = "loop"
    /\ LET name == CopyToBackends[bk_pos]
           backend == Backends(bk_run.known, name)
       IN \E c \in Results :
            LET call == BackendCall("copy", name, backend.Repository, c)
            IN /\ bk_calls' = Append(bk_calls, call)
               /\ bk_errors' = bk_errors \o FailedOf(<<call>>)
    /\ LoopAdvance("done")
    /\ UNCHANGED <<bk_run, bk_ret>>
    /\ UNCHANGED <<wfVars, lkVars, cpVars, ckVars, ntVars, stVars>>

(***************************************************************************)
(* Specification of one command run                                        *)
(***************************************************************************)
LockIdle ==
    /\ lk_path = 0
    /\ lk_flock = [i \in 1..(NumProcs + 1) |-> 0]
    /\ lk_fd = [p \in 1..NumProcs |-> 0]
    /\ lk_file = [p \in 1..NumProcs |-> FALSE]
    /\ lk_pc = [p \in 1..NumProcs |-> "idle"]
    /\ lk_since = [p \in 1..NumProcs |-> {}]

Init ==
    /\ \/ command = "backup" /\ flags \in BackupFlags
       \/ command = "full" /\ flags \in FullFlags
       \/ command = "default" /\ flags \in DefaultFlags
       \/ command = "forget" /\ flags \in ForgetFlags
       \/ command = "prune" /\ flags \in TargetFlags
       \/ command = "check" /\ flags \in TargetFlags
    /\ pc = "acquire"
    /\ cur = 1
    /\ errors = <<>>
    /\ engineLog = <<>>
    /\ hookLog = <<>>
    /\ notifyLog = <<>>
    /\ staleLockRepos = <<>>
    /\ ret = Running
    /\ lockHeld = FALSE
    /\ faults = 0
    /\ LockIdle
    /\ CopyIdle
    /\ CheckIdle
    /\ NotifyIdle
    /\ StartIdle
    /\ LookupIdle

Next ==
    \/ BackupAcquire \/ BackupPreflight \/ BackupPreHook \/ BackupRun
    \/ FullAcquire \/ FullPreBackup \/ FullBackup \/ FullForget \/ FullPrune
    \/ FullCheck \/ FullCopyBackend \/ FullVerifyPrimary \/ FullVerifyBackend
    \/ FullVerifyReport \/ FullSummary
    \/ DefaultAcquire \/ DefaultPreflight \/ DefaultBackup \/ DefaultForget
    \/ DefaultPrune \/ DefaultCheck \/ DefaultCopyBackend \/ DefaultSummary
    \/ ForgetAcquire \/ ForgetOnActive \/ ForgetOnPrimary \/ ForgetOnBackend
    \/ ForgetSummary
    \/ PruneAcquire \/ PruneOnActive \/ PruneOnPrimary \/ PruneOnBackend
    \/ PruneSummary
    \/ CheckAcquire \/ CheckOnActive \/ CheckOnPrimary \/ CheckOnBackend
    \/ CheckSummary

Spec == Init /\ [][Next]_vars

(***************************************************************************)
(* The process-exclusivity lock (Lock.Acquire / Lock.Release, flock-based) *)
(* One step per system call; processes interleave between system calls.    *)
(***************************************************************************)
Procs == 1..NumProcs
Inodes == 1..(NumProcs + 1)

\* an inode nothing refers to: not named by the path, not open anywhere
UnusedInodes == {i \in Inodes : i # lk_path /\ \A p \in Procs : lk_fd[p] # i}
FreshInode == CHOOSE i \in UnusedInodes : \A j \in UnusedInodes : i <= j

\* os.OpenFile(l.path, O_CREATE|O_RDWR, 0666): the inode the descriptor gets
OpenCreate == IF lk_path = 0 THEN FreshInode ELSE lk_path

\* syscall.Flock(fd, LOCK_EX|LOCK_NB) succeeds iff no other descriptor holds it
FlockGranted(p) == lk_flock[lk_fd[p]] = 0

\* Acquire: open (or create) the lock file
AcquireOpen(p) ==
    /\ lk_pc[p] = "idle"
    /\ lk_fd' = [lk_fd EXCEPT ![p] = OpenCreate]
    /\ lk_path' = OpenCreate
    /\ lk_pc' = [lk_pc EXCEPT ![p] = "flock"]
    /\ lk_since' = [lk_since EXCEPT ![p] = {q \in 1..NumProcs : lk_pc[q] = "held"}]
    /\ UNCHANGED <<lk_flock, lk_file>>
    /\ UNCHANGED <<wfVars, cpVars, ckVars, ntVars, stVars, bkVars>>

\* Acquire: try the non-blocking exclusive flock; on EWOULDBLOCK close the
\* file and return the "another instance is already running" error
AcquireFlock(p) ==
    /\ lk_pc[p] = "flock"
    /\ IF FlockGranted(p)
       THEN /\ lk_flock' = [lk_flock EXCEPT ![lk_fd[p]] = p]
            /\ lk_file' = [lk_file EXCEPT ![p] = TRUE]
            /\ lk_pc' = [lk_pc EXCEPT ![p] = "held"]
            /\ UNCHANGED lk_fd
       ELSE /\ lk_fd' = [lk_fd EXCEPT ![p] = 0]
            /\ lk_pc' = [lk_pc EXCEPT ![p] = "idle"]
            /\ UNCHANGED <<lk_flock, lk_file>>
    /\ UNCHANGED <<lk_path, lk_since>>
    /\ UNCHANGED <<wfVars, cpVars, ckVars, ntVars, stVars, bkVars>>

\* Release: syscall.Flock(fd, LOCK_UN)
ReleaseUnlock(p) ==
    /\ lk_pc[p] = "held"
    /\ lk_file[p]
    /\ lk_flock' = [lk_flock EXCEPT ![lk_fd[p]] = 0]
    /\ lk_pc' = [lk_pc EXCEPT ![p] = "close"]
    /\ lk_since' = [q \in 1..NumProcs |->
                       IF lk_pc[q] = "flock" THEN lk_since[q] \ {p} ELSE lk_since[q]]
    /\ UNCHANGED <<lk_path, lk_fd, lk_file>>
    /\ UNCHANGED <<wfVars, cpVars, ckVars, ntVars, stVars, bkVars>>

\* Release: l.file.Close()
ReleaseClose(p) ==
    /\ lk_pc[p] = "close"
    /\ lk_fd' = [lk_fd EXCEPT ![p] = 0]
    /\ lk_pc' = [lk_pc EXCEPT ![p] = "remove"]
    /\ UNCHANGED <<lk_path, lk_flock, lk_file, lk_since>>
    /\ UNCHANGED <<wfVars, cpVars, ckVars, ntVars, stVars, bkVars>>

\* Release: os.Remove(l.path) unlinks whatever the path names now; l.file = nil
ReleaseRemove(p) ==
    /\ lk_pc[p] = "remove"
    /\ lk_path' = 0
    /\ lk_file' = [lk_file EXCEPT ![p] = FALSE]
    /\ lk_pc' = [lk_pc EXCEPT ![p] = "idle"]
    /\ UNCHANGED <<lk_flock, lk_fd, lk_since>>
    /\ UNCHANGED <<wfVars, cpVars, ckVars, ntVars, stVars, bkVars>>

\* IsLocked: os.Stat finds the lock file and os.OpenFile(l.path, O_RDWR)
\* opens it; when the path names nothing IsLocked returns false at once
IsLockedOpen(p) ==
    /\ lk_pc[p] = "idle"
    /\ lk_path # 0
    /\ lk_fd' = [lk_fd EXCEPT ![p] = lk_path]
    /\ lk_pc' = [lk_pc EXCEPT ![p] = "probe"]
    /\ UNCHANGED <<lk_path, lk_flock, lk_file, lk_since>>
    /\ UNCHANGED <<wfVars, cpVars, ckVars, ntVars, stVars, bkVars>>

\* IsLocked: syscall.Flock(fd, LOCK_EX|LOCK_NB); on an error the deferred
\* Close runs and IsLocked returns true
IsLockedFlock(p) ==
    /\ lk_pc[p] = "probe"
    /\ IF FlockGranted(p)
       THEN /\ lk_flock' = [lk_flock EXCEPT ![lk_fd[p]] = p]
            /\ lk_pc' = [lk_pc EXCEPT ![p] = "probe_locked"]
            /\ UNCHANGED lk_fd
       ELSE /\ lk_fd' = [lk_fd EXCEPT ![p] = 0]
            /\ lk_pc' = [lk_pc EXCEPT ![p] = "idle"]
            /\ UNCHANGED lk_flock
    /\ UNCHANGED <<lk_path, lk_file, lk_since>>
    /\ UNCHANGED <<wfVars, cpVars, ckVars, ntVars, stVars, bkVars>>

\* IsLocked: syscall.Flock(fd, LOCK_UN), then the deferred Close; IsLocked
\* returns false
IsLockedUnlock(p) ==
    /\ lk_pc[p] = "probe_locked"
    /\ lk_flock' = [lk_flock EXCEPT ![lk_fd[p]] = 0]
    /\ lk_fd' = [lk_fd EXCEPT ![p] = 0]
    /\ lk_pc' = [lk_pc EXCEPT ![p] = "idle"]
    /\ UNCHANGED <<lk_path, lk_file, lk_since>>
    /\ UNCHANGED <<wfVars, cpVars, ckVars, ntVars, stVars, bkVars>>

LockInit ==
    /\ command = "backup"
    /\ flags = NoFlags
    /\ pc = "done"
    /\ cur = 1
    /\ errors = <<>>
    /\ engineLog = <<>>
    /\ hookLog = <<>>
    /\ notifyLog = <<>>
    /\ staleLockRepos = <<>>
    /\ ret = Running
    /\ lockHeld = FALSE
    /\ faults = 0
    /\ LockIdle
    /\ CopyIdle
    /\ CheckIdle
    /\ NotifyIdle
    /\ StartIdle
    /\ LookupIdle

LockNext ==
    \E p \in Procs :
        \/ AcquireOpen(p)
        \/ AcquireFlock(p)
        \/ ReleaseUnlock(p)
        \/ ReleaseClose(p)
        \/ ReleaseRemove(p)
        \/ IsLockedOpen(p)
        \/ IsLockedFlock(p)
        \/ IsLockedUnlock(p)

LockSpec == LockInit /\ [][LockNext]_vars

\* one Copy call by a destination executor set up as the workflows do:
\* NewExecutor(backend.Repository, ...), SetAWSCredentials(backend key, ...)
CopyInit ==
    /\ command = "default"
    /\ flags = NoFlags
    /\ pc = "done"
    /\ cur = 1
    /\ errors = <<>>
    /\ engineLog = <<>>
    /\ hookLog = <<>>
    /\ notifyLog = <<>>
    /\ staleLockRepos = <<>>
    /\ ret = Running
    /\ lockHeld = FALSE
    /\ faults = 0
    /\ LockIdle
    /\ \/ cp_op = "copy" /\ cp_opts \in CopyOptions
       \/ cp_op = "init" /\ cp_opts \in InitOptions
    /\ cp_env = cp_opts.ToAWSAccessKeyID
    /\ cp_runs = <<>>
    /\ cp_ret = "none"
    /\ cp_pc = "call"
    /\ cp_files = {}
    /\ CheckIdle
    /\ NotifyIdle
    /\ StartIdle
    /\ LookupIdle

CopyNext ==
    \/ Copy
    \/ InitWithOptions
    \/ CopyRun

CopySpec == CopyInit /\ [][CopyNext]_vars

\* no command of Spec is under way
WorkflowIdle ==
    /\ command = "check"
    /\ flags = NoFlags
    /\ pc = "done"
    /\ cur = 1
    /\ errors = <<>>
    /\ engineLog = <<>>
    /\ hookLog = <<>>
    /\ notifyLog = <<>>
    /\ staleLockRepos = <<>>
    /\ ret = Running
    /\ lockHeld = FALSE
    /\ faults = 0

CheckInit ==
    /\ WorkflowIdle
    /\ LockIdle
    /\ CopyIdle
    /\ ck_run \in CheckRuns
    /\ ck_interval \in IntervalDays
    /\ ck_hash \in ShortHashes
    /\ ck_files = [p \in CheckRepos |-> NoFile]
    /\ ck_now = 0
    /\ ck_pos = 1
    /\ ck_last = NoStep
    /\ NotifyIdle
    /\ StartIdle
    /\ LookupIdle

CheckNext ==
    \/ CheckStep
    \/ CheckSkipped
    \/ CheckNextRun

CheckSpec == CheckInit /\ [][CheckNext]_vars

NotifyInit ==
    /\ WorkflowIdle
    /\ LockIdle
    /\ CopyIdle
    /\ CheckIdle
    /\ StartIdle
    /\ LookupIdle
    /\ nt_run \in NotifyingRuns
    /\ nt_cfg \in NotificationSettings
    /\ nt_pc = "idle"
    /\ nt_pos = 1
    /\ nt_lastErr = NoError
    /\ nt_sent = <<>>
    /\ nt_ret = "none"

NotifyNext ==
    \/ NotifyCall
    \/ ProviderSend
    \/ NotifyReturn

NotifySpec == NotifyInit /\ [][NotifyNext]_vars

StartInit ==
    /\ WorkflowIdle
    /\ LockIdle
    /\ CopyIdle
    /\ CheckIdle
    /\ NotifyIdle
    /\ LookupIdle
    /\ st_run \in StartRuns
    /\ st_pc = "start"
    /\ st_log = <<>>
    /\ st_acquired = FALSE
    /\ st_ret = "none"

StartNext ==
    \/ CommandStart
    \/ StartAcquire
    \/ CommandBody

StartSpec == StartInit /\ [][StartNext]_vars

LookupInit ==
    /\ WorkflowIdle
    /\ LockIdle
    /\ CopyIdle
    /\ CheckIdle
    /\ NotifyIdle
    /\ StartIdle
    /\ bk_run \in LookupRuns
    /\ bk_pc = IF bk_run.command = "copy" THEN "validate" ELSE "loop"
    /\ bk_pos = 1
    /\ bk_calls = <<>>
    /\ bk_errors = <<>>
    /\ bk_ret = "none"

LookupNext ==
    \/ LookupDefault
    \/ LookupFull
    \/ LookupFullVerify
    \/ LookupMaintenance
    \/ LookupCopyValidate
    \/ LookupCopy

LookupSpec == LookupInit /\ [][LookupNext]_vars

\* the processes between a successful Acquire and their Release
Holders == {p \in Procs : lk_pc[p] = "held"}

(***************************************************************************)
(* Observations on a run                                                   *)
(***************************************************************************)
Fired(h) == Len(SelectSeq(hookLog, LAMBDA e : e.hook = h))

\* a hook script was spawned and exited nonzero
ExitedNonzero(h) ==
    \E i \in 1..Len(hookLog) :
        hookLog[i].hook = h /\ hookLog[i].spawned /\ hookLog[i].err

Called(op, t) == \E i \in 1..Len(engineLog) : engineLog[i].op = op /\ engineLog[i].target = t

CallResult(op, t, r) ==
    \E i \in 1..Len(engineLog) :
        engineLog[i].op = op /\ engineLog[i].target = t /\ engineLog[i].result = r

Calls(op, t) ==
    Len(SelectSeq(engineLog, LAMBDA e : e.op = op /\ e.target = t))

Done == pc = "done"

\* the run ended in a start-up check, before its first step
StartupFailed == ret.err \in {"locked", "nobackend", "norestic", "noinit"}

\* some step of the run failed: an engine operation, the pre-backup hook,
\* or the stale-lock verification
SomeStepFailed ==
    \/ \E i \in 1..Len(engineLog) :
          engineLog[i].op # "locks" /\ engineLog[i].result = "fail"
    \/ \E i \in 1..Len(hookLog) : hookLog[i].hook = "pre_backup" /\ hookLog[i].err
    \/ Len(staleLockRepos) > 0

Secondaries == {CopyToBackends[i] : i \in 1..Len(CopyToBackends)}

\* the maintenance chain a workflow runs on a secondary after its copy
ChainOps ==
    IF command = "full" THEN {"forget", "prune", "check"}
    ELSE {"forget"} \cup (IF flags.doPrune THEN {"prune"} ELSE {})
                    \cup (IF flags.doCheck THEN {"check"} ELSE {})

(***************************************************************************)
(* C1. If the pre-backup hook exits nonzero, the engine's Backup is never  *)
(* invoked in that run and the post-backup hook never fires (backup, full  *)
(* and default workflows).                                                 *)
(***************************************************************************)
C1_PreBackupGate ==
    ExitedNonzero("pre_backup") =>
        /\ \A t \in Targets : ~Called("backup", t)
        /\ Fired("post_backup") = 0

C1_Witness ==
    /\ Done
    /\ ExitedNonzero("pre_backup")
    /\ command = "default"
    /\ Called("forget", Primary)

(***************************************************************************)
(* C2. A failed copy to one secondary skips only that secondary's          *)
(* forget/prune/check; every other secondary, before and after it, gets    *)
(* its own copy and, when that copy succeeds, its own chain; the primary   *)
(* is not operated on again once the copy loop has started.                *)
(***************************************************************************)
PrimaryUntouchedByLoop ==
    \A i \in 1..Len(engineLog), j \in 1..Len(engineLog) :
        (engineLog[i].op = "copy" /\ i < j /\ engineLog[j].op # "locks")
            => engineLog[j].target # Primary

C2_SecondaryIndependence ==
    (Done /\ \E b \in Secondaries : CallResult("copy", b, "fail")) =>
        /\ \A b \in Secondaries :
              /\ Calls("copy", b) = 1
              /\ CallResult("copy", b, "fail") =>
                    \A op \in {"forget", "prune", "check"} : ~Called(op, b)
              /\ CallResult("copy", b, "ok") =>
                    \A op \in ChainOps : Calls(op, b) = 1
        /\ PrimaryUntouchedByLoop
        /\ \A op \in {"backup", "forget", "prune", "check"} : Calls(op, Primary) <= 1

C2_Witness ==
    /\ Done
    /\ command = "full"
    /\ NumSecondaries >= 3
    /\ CallResult("copy", CopyToBackends[1], "ok")
    /\ CallResult("copy", CopyToBackends[2], "fail")
    /\ CallResult("copy", CopyToBackends[3], "ok")
    /\ Called("check", CopyToBackends[1])
    /\ Called("check", CopyToBackends[3])
    /\ Called("check", Primary)

(***************************************************************************)
(* C3. At most one process at a time is between a successful Acquire and   *)
(* its Release, for any interleaving of Acquire and Release calls.         *)
(***************************************************************************)
C3_MutualExclusion == Cardinality(Holders) <= 1

(***************************************************************************)
(* C4. As claimed: a full or default run returns nil if and only if no     *)
(* step added an entry to the error list.                                  *)
(***************************************************************************)
C4_VerdictIffNoErrors_Original ==
    (Done /\ command \in {"full", "default"}) =>
        ((ret.err = "nil") <=> (Len(errors) = 0))

(***************************************************************************)
(* C4, amended. A full or default run that passed its start-up checks      *)
(* (lock acquired, restic installed, repository initialized) returns nil   *)
(* if and only if its error list is empty, and the list is empty if and    *)
(* only if no step failed; a run stopped by a start-up check returns an    *)
(* error with an empty list.                                               *)
(***************************************************************************)
C4_VerdictIffNoErrors ==
    (Done /\ command \in {"full", "default"}) =>
        IF StartupFailed
        THEN Len(errors) = 0 /\ ret.err # "nil"
        ELSE /\ (ret.err = "nil") <=> (Len(errors) = 0)
             /\ (Len(errors) = 0) <=> ~SomeStepFailed

C4_Witness ==
    /\ Done
    /\ command = "default"
    /\ ~StartupFailed
    /\ ret.err = "count"
    /\ ret.n = 2
    /\ Len(errors) = 2

(***************************************************************************)
(* C5. When the backup succeeds and the post-backup hook exits nonzero,    *)
(* the hook failure adds nothing to the error list, and the run returns    *)
(* nil when every other step succeeds.                                     *)
(***************************************************************************)
C5_PostBackupFailureIsolated ==
    /\ \A i \in 1..Len(errors) : errors[i].step # "post_backup"
    /\ (Done /\ CallResult("backup", Primary, "ok") /\ ExitedNonzero("post_backup")
             /\ ~SomeStepFailed)
          => (ret.err = "nil" /\ Len(errors) = 0)

C5_Witness ==
    /\ Done
    /\ command = "full"
    /\ flags.verifyNoLocks
    /\ CallResult("backup", Primary, "ok")
    /\ ExitedNonzero("post_backup")
    /\ ret.err = "nil"

(***************************************************************************)
(* C6. When the engine's backup fails (hooks enabled), the post-backup     *)
(* hook runs with BACKUP_STATUS=failure and every on-error call comes      *)
(* after it, at least one such call being made.                            *)
(***************************************************************************)
C6_PostBackupThenOnError ==
    (CallResult("backup", Primary, "fail") /\ HooksOn) =>
        \E i \in 1..Len(hookLog) :
            /\ hookLog[i].hook = "post_backup"
            /\ hookLog[i].status = "failure"
            /\ \E j \in 1..Len(hookLog) : hookLog[j].hook = "on_error"
            /\ \A j \in 1..Len(hookLog) : hookLog[j].hook = "on_error" => i < j

C6_Witness ==
    /\ Done
    /\ command = "backup"
    /\ CallResult("backup", Primary, "fail")
    /\ Fired("post_backup") = 1
    /\ Fired("on_error") = 1
    /\ hookLog[Len(hookLog)].spawned

(***************************************************************************)
(* C7. Every run with hooks enabled that ends in success fires on-success  *)
(* exactly once, as the last hook of the run.                              *)
(***************************************************************************)
C7_OnSuccessOnce ==
    (Done /\ ret.err = "nil" /\ HooksOn) =>
        /\ Fired("on_success") = 1
        /\ hookLog[Len(hookLog)].hook = "on_success"

(***************************************************************************)
(* C8. Every run with hooks enabled in which a step failed fires on-error  *)
(* exactly once, whichever and however many steps failed.                  *)
(***************************************************************************)
C8_OnErrorOnce ==
    (Done /\ HooksOn /\ ret.err # "nil" /\ SomeStepFailed) => Fired("on_error") = 1

(***************************************************************************)
(* C9. No run fires both the on-success hook and the on-error hook.        *)
(***************************************************************************)
C9_SuccessErrorExclusive == ~(Fired("on_success") > 0 /\ Fired("on_error") > 0)

C9_Witness ==
    /\ Done
    /\ command = "full"
    /\ Fired("on_error") = 2
    /\ Fired("on_success") = 0

(***************************************************************************)
(* C10. When the pre-backup hook exits nonzero, on-error fires exactly     *)
(* once over the whole run (backup, full and default workflows).           *)
(***************************************************************************)
C10_PreFailureOnErrorOnce ==
    ExitedNonzero("pre_backup") => Fired("on_error") = 1

C10_Witness ==
    /\ Done
    /\ command = "default"
    /\ ExitedNonzero("pre_backup")
    /\ Len(errors) = 2
    /\ Fired("on_error") = 1

(***************************************************************************)
(* C11. In one run, every forget call, on the primary and on every         *)
(* secondary, receives the same six retention values, those of the         *)
(* configured policy (full workflow, default workflow, forget command).    *)
(***************************************************************************)
RetentionOf(opts) ==
    [KeepWithin |-> opts.KeepWithin, KeepHourly |-> opts.KeepHourly,
     KeepDaily |-> opts.KeepDaily, KeepWeekly |-> opts.KeepWeekly,
     KeepMonthly |-> opts.KeepMonthly, KeepYearly |-> opts.KeepYearly]

ForgetCallIndexes == {i \in 1..Len(engineLog) : engineLog[i].op = "forget"}

C11_RetentionConvergence ==
    \A i \in ForgetCallIndexes, j \in ForgetCallIndexes :
        /\ RetentionOf(engineLog[i].opts) = RetentionOf(engineLog[j].opts)
        /\ RetentionOf(engineLog[i].opts) = flags.retention

C11_Witness ==
    /\ Done
    /\ command = "default"
    /\ Called("forget", Primary)
    /\ \A b \in Secondaries : CallResult("forget", b, "ok")
    /\ flags.retention.KeepWithin = "48h"

(***************************************************************************)
(* C12. In a full or default run whose pre-backup hook did not fail, a     *)
(* failed backup, forget, prune, check or copy never ends the run early:   *)
(* its error is in the error list, every step of the primary is executed   *)
(* once, every secondary gets its copy and, when that copy succeeded, its  *)
(* own chain, and the run ends in the summary.                             *)
(***************************************************************************)
PreBackupHookFailed ==
    \E i \in 1..Len(hookLog) : hookLog[i].hook = "pre_backup" /\ hookLog[i].err

\* the operations the run's flags ask for on the primary
PrimaryOps ==
    IF command = "full" THEN {"backup", "forget", "prune", "check"}
    ELSE (IF flags.noBackup THEN {} ELSE {"backup"})
         \cup (IF flags.noForget THEN {} ELSE {"forget"})
         \cup (IF flags.doPrune THEN {"prune"} ELSE {})
         \cup (IF flags.doCheck THEN {"check"} ELSE {})

\* the run's flags ask for the copy loop
CopyAsked == command = "full" \/ ~flags.noCopy

FailedOps ==
    {i \in 1..Len(engineLog) : engineLog[i].op # "locks" /\ engineLog[i].result = "fail"}

C12_NoShortCircuit ==
    (Done /\ command \in {"full", "default"} /\ ~StartupFailed /\ ~PreBackupHookFailed) =>
        /\ \A op \in PrimaryOps : Calls(op, Primary) = 1
        /\ CopyAsked =>
              \A b \in Secondaries :
                 /\ Calls("copy", b) = 1
                 /\ CallResult("copy", b, "ok") => \A op \in ChainOps : Calls(op, b) = 1
        /\ \A i \in FailedOps :
              \E k \in 1..Len(errors) :
                 errors[k] = StepError(engineLog[i].op, engineLog[i].target)
        /\ Len(errors) >= Cardinality(FailedOps)
        /\ notifyLog # <<>> /\ notifyLog[Len(notifyLog)].title = "final"

C12_Witness ==
    /\ Done
    /\ command = "full"
    /\ CallResult("backup", Primary, "fail")
    /\ CallResult("forget", Primary, "fail")
    /\ Called("check", Primary)
    /\ \A b \in Secondaries : Called("check", b)
    /\ Len(errors) = 2

(***************************************************************************)
(* C13. The aggregate error a run returns carries a count equal to the     *)
(* number of steps that failed in the run: the failed engine operations,   *)
(* the failed pre-backup hook and the repositories found with a stale      *)
(* lock.                                                                   *)
(***************************************************************************)
FailedSteps ==
    Cardinality(FailedOps)
    + (IF PreBackupHookFailed THEN 1 ELSE 0)
    + Len(staleLockRepos)

C13_CountIsFailedSteps ==
    (Done /\ ret.err = "count") => (ret.n = FailedSteps /\ ret.n = Len(errors))

C13_Witness ==
    /\ Done
    /\ command = "full"
    /\ NumSecondaries >= 3
    /\ CallResult("copy", CopyToBackends[1], "ok")
    /\ CallResult("copy", CopyToBackends[2], "fail")
    /\ CallResult("copy", CopyToBackends[3], "ok")
    /\ Called("forget", CopyToBackends[3])
    /\ ret.err = "count"
    /\ ret.n = 1

(***************************************************************************)
(* C14. A command run that acquired the process-exclusivity lock holds it  *)
(* until it returns and has released it when it returns, on every exit     *)
(* path: success, accumulated-error return and every early return; while   *)
(* it holds the lock the run always has a next step to take.               *)
(***************************************************************************)
C14_LockReleasedOnReturn ==
    /\ Done => ~lockHeld
    /\ (~Done /\ pc # "acquire") => lockHeld
    /\ lockHeld => ENABLED Next

C14_Witness ==
    /\ Done
    /\ ~lockHeld
    /\ ret.err \in {"norestic", "noinit", "nobackend", "hook"}

(***************************************************************************)
(* C15. An Acquire made while another instance holds the lock, from the    *)
(* start of the call to its end, returns the "already running" error: no   *)
(* process is between a successful Acquire and its Release if some other   *)
(* instance held the lock during the whole of that Acquire call.           *)
(***************************************************************************)
C15_SecondAcquireFails ==
    \A p \in Procs : lk_pc[p] = "held" => lk_since[p] = {}

(***************************************************************************)
(* C16. Copy between two locations that both begin with "s3:" and whose    *)
(* access keys are both non-empty and different returns the cross-account  *)
(* error and makes no subprocess invocation.                               *)
(***************************************************************************)
S3Scheme(repo) ==
    Len(repo) >= 3 /\ repo[1] = "s" /\ repo[2] = "3" /\ repo[3] = ":"

CrossAccountInput ==
    /\ S3Scheme(cp_opts.FromRepository)
    /\ S3Scheme(cp_opts.ToRepository)
    /\ cp_opts.FromAWSAccessKeyID # ""
    /\ cp_opts.ToAWSAccessKeyID # ""
    /\ cp_opts.FromAWSAccessKeyID # cp_opts.ToAWSAccessKeyID

C16_CrossAccountRejected ==
    (cp_ret # "none" /\ CrossAccountInput) =>
        (cp_ret = "CrossAccountS3Error" /\ Len(cp_runs) = 0)

C16_Witness ==
    /\ CrossAccountInput
    /\ cp_opts.FromRepository # cp_opts.ToRepository
    /\ cp_ret = "CrossAccountS3Error"
    /\ Len(cp_runs) = 0

(***************************************************************************)
(* C17. When the lock verification of a run finds, on a checked            *)
(* repository, a lock whose hostname is the current host, the run appends  *)
(* an error for that repository to the error list, so that it returns an   *)
(* error, and sends one stale-lock notification, apart from and before the *)
(* one final error notification.                                           *)
(***************************************************************************)
LocksCalls == {i \in 1..Len(engineLog) : engineLog[i].op = "locks"}

\* the lock lists the verification was answered with
HasLockOf(i, host) ==
    \E k \in 1..Len(engineLog[i].answer) : engineLog[i].answer[k] = host

OwnLockFound(i) == engineLog[i].result = "ok" /\ HasLockOf(i, "self")

Notified(kind, title) ==
    Len(SelectSeq(notifyLog, LAMBDA n : n.kind = kind /\ n.title = title))

VerificationOver == pc \in {"summary", "done"}

C17_StaleLockSurfaced ==
    \A i \in LocksCalls :
        OwnLockFound(i) =>
            /\ \E k \in 1..Len(errors) :
                  errors[k] = StepError("stale_lock", engineLog[i].target)
            /\ VerificationOver => Notified("error", "stale_lock") = 1
            /\ Done =>
                  /\ ret.err = "count"
                  /\ Notified("error", "final") = 1
                  /\ Len(notifyLog) >= 2
                  /\ notifyLog[Len(notifyLog)] = Notify("error", "final")
                  /\ notifyLog[Len(notifyLog) - 1] = Notify("error", "stale_lock")

C17_Witness ==
    /\ Done
    /\ Len(staleLockRepos) = 2
    /\ staleLockRepos[1] = Primary
    /\ ret.err = "count"
    /\ ret.n = 2
    /\ Notified("error", "stale_lock") = 1
    /\ Notified("error", "final") = 1

(***************************************************************************)
(* C18. Locks held by other hosts never cause a failure: a repository      *)
(* whose lock list holds only such locks, however many, adds nothing to    *)
(* the error list, and a run that found no lock of the current host sends  *)
(* no stale-lock notification and returns what its other steps decide.     *)
(***************************************************************************)
OnlyOtherLocks(i) == engineLog[i].result = "ok" /\ ~HasLockOf(i, "self")

C18_OtherHostLocksHarmless ==
    /\ \A i \in LocksCalls :
          OnlyOtherLocks(i) =>
              /\ \A k \in 1..Len(errors) :
                    errors[k] # StepError("stale_lock", engineLog[i].target)
              /\ \A k \in 1..Len(staleLockRepos) :
                    staleLockRepos[k] # engineLog[i].target
    /\ (command = "full" /\ \A i \in LocksCalls : ~OwnLockFound(i)) =>
          /\ Notified("error", "stale_lock") = 0
          /\ Len(errors) = Cardinality(FailedOps) + (IF PreBackupHookFailed THEN 1 ELSE 0)
          /\ (Done /\ FailedOps = {} /\ ~StartupFailed /\ ~PreBackupHookFailed)
                => (ret.err = "nil" /\ Notified("error", "final") = 0)

C18_Witness ==
    /\ Done
    /\ command = "full"
    /\ \E i \in LocksCalls :
          /\ engineLog[i].target = Primary
          /\ engineLog[i].answer = <<"other", "other">>
    /\ \E i \in LocksCalls :
          /\ engineLog[i].target # Primary
          /\ engineLog[i].answer = <<"other">>
    /\ ret.err = "nil"
    /\ Notified("success", "final") = 1

(***************************************************************************)
(* C19. As claimed: every backup, full or default run triggers exactly     *)
(* one verdict notification (the stale-lock notification apart).           *)
(***************************************************************************)
VerdictNotifications == SelectSeq(notifyLog, LAMBDA n : n.title # "stale_lock")

Workflow == command \in {"backup", "full", "default"}

C20_DefaultContinuesPastPreFailure ==
    (Done /\ command = "default" /\ PreBackupHookFailed) =>
        /\ ~Called("backup", Primary)
        /\ ~flags.noForget => Calls("forget", Primary) = 1
        /\ ~flags.noCopy =>
              \A b \in Secondaries :
                 /\ Calls("copy", b) = 1
                 /\ CallResult("copy", b, "ok") => Calls("forget", b) = 1
        /\ ret.err = "count"
        /\ ret.n >= 1
        /\ notifyLog = <<Notify("error", "final")>>

C20_Witness ==
    /\ Done
    /\ command = "default"
    /\ PreBackupHookFailed
    /\ CallResult("forget", Primary, "ok")
    /\ \A b \in Secondaries : CallResult("copy", b, "ok") /\ CallResult("forget", b, "ok")
    /\ ret = ReturnErr("count", 1)

(***************************************************************************)
(* C21. In the backup and full commands a failed pre-backup hook ends the  *)
(* command: the on-error hook and one error notification follow the        *)
(* failed hook, no engine operation (backup, forget, prune, check, copy)   *)
(* is invoked at any point of the run, and the command returns an error.   *)
(***************************************************************************)
MaintenanceOps == {"backup", "forget", "prune", "check", "copy"}

C21_PreFailureAborts ==
    (command \in {"backup", "full"} /\ PreBackupHookFailed) =>
        /\ Done
        /\ ret.err = "hook"
        /\ \A i \in 1..Len(engineLog) : engineLog[i].op \notin MaintenanceOps
        /\ hookLog[Len(hookLog)].hook = "on_error"
        /\ hookLog[Len(hookLog) - 1].hook = "pre_backup"
        /\ notifyLog = <<Notify("error", "pre_backup_hook_failed")>>

C21_Witness ==
    /\ command = "full"
    /\ ExitedNonzero("pre_backup")
    /\ Fired("on_error") = 1
    /\ ret.err = "hook"
    /\ engineLog = <<>>

(***************************************************************************)
(* C22. A deep-check state file is written only by the check step of a     *)
(* repository whose check read all data and succeeded: the file written    *)
(* is that repository's, and it then holds the repository and the current  *)
(* day (or is left unreadable by a write that failed half-way).  A failed  *)
(* check and a successful metadata-only check change no state file.        *)
(***************************************************************************)
ReadAllData(step) == step.args = <<"check", "--read-data">>

C22_RecordedOnlyAfterDeepSuccess ==
    [][\A p \in CheckRepos :
         ck_files'[p] # ck_files[p] =>
            /\ ck_last'.step /\ ck_last'.pos = ck_pos /\ ck_pos' = ck_pos + 1
            /\ ck_last'.result = "ok"
            /\ ReadAllData(ck_last')
            /\ p = ck_hash[ck_last'.target]
            /\ ck_files'[p] \in {RecordCheck(ck_last'.target, ck_now), Unreadable}]_vars

C22_Witness ==
    /\ ck_last.step
    /\ ck_last.result = "ok"
    /\ ReadAllData(ck_last)
    /\ ck_last.target = CopyToBackends[2]
    /\ ck_last.before = RecordCheck(CopyToBackends[2], 0)
    /\ ck_now = 2
    /\ ck_files[ck_hash[CopyToBackends[2]]] = RecordCheck(CopyToBackends[2], 2)
    /\ ck_files[ck_hash[Primary]] = RecordCheck(Primary, 0)

(***************************************************************************)
(* C23. Every check step of a workflow reads all data when deep mode is    *)
(* requested or when the repository's state file shows a last full check   *)
(* more than the configured interval of days ago.                          *)
(***************************************************************************)
\* the state file of the step's repository shows a full check of that
\* repository more than the interval ago
IntervalElapsed(step) ==
    /\ ck_interval > 0
    /\ step.before.kind = "state"
    /\ step.before.Repository = step.target
    /\ ck_now > step.before.LastCheck + ck_interval

C23_PromotedWhenDue ==
    (ck_last.step /\ (ck_run.deep \/ IntervalElapsed(ck_last))) =>
        ReadAllData(ck_last)

(***************************************************************************)
(* C24. In dry-run mode the hook runner spawns no process, whatever the    *)
(* state of the hook file: no hook call of a dry run spawns one, and the   *)
(* runner prints its "would execute" line exactly for a hook file that is  *)
(* present and executable, returning no error.                             *)
(***************************************************************************)
C24_DryRunNeverSpawns ==
    /\ flags.dryRun => \A i \in 1..Len(hookLog) : ~hookLog[i].spawned
    /\ \A f \in HookFileStates, e \in ExitCodes :
          /\ ~Run(f, TRUE, e).spawned
          /\ Run(f, TRUE, e).dryLog <=> f = "exec"
          /\ Run(f, TRUE, e).dryLog => ~Run(f, TRUE, e).err

C24_Witness ==
    /\ Done
    /\ flags.dryRun
    /\ command = "full"
    /\ Fired("pre_backup") = 1
    /\ Fired("post_backup") = 1
    /\ Fired("on_error") = 1

(***************************************************************************)
(* C25. With --no-hooks a backup or full run makes no hook call at all,    *)
(* whatever fails; once past its start-up checks it still runs the backup  *)
(* and still ends with its success or error notification.                  *)
(***************************************************************************)
C25_NoHooksBypass ==
    (command \in {"backup", "full"} /\ flags.noHooks) =>
        /\ hookLog = <<>>
        /\ (Done /\ ~StartupFailed) =>
              /\ Calls("backup", Primary) = 1
              /\ notifyLog # <<>>
              /\ notifyLog[Len(notifyLog)].kind =
                    (IF ret.err = "nil" THEN "success" ELSE "error")

C25_Witness ==
    /\ Done
    /\ command = "full"
    /\ flags.noHooks
    /\ CallResult("backup", Primary, "fail")
    /\ ret.err = "count"
    /\ notifyLog # <<>>

(***************************************************************************)
(* C26. As claimed: NotifySuccess and NotifyError return nil even when     *)
(* one or more providers fail to send.                                     *)
(***************************************************************************)
Returned == nt_pc = "returned"

FailedSends == {i \in 1..Len(nt_sent) : nt_sent[i].result = "fail"}

C28_DryRunSendsNothing ==
    nt_run.dryRun => nt_sent = <<>>

(***************************************************************************)
(* C27. As claimed: a forget, prune or check command that got its lock     *)
(* operates on the primary and then on every copy backend, whatever the    *)
(* primary's result; with --primary-only no copy backend receives an       *)
(* engine call.                                                            *)
(***************************************************************************)
TargetCommand == command \in {"forget", "prune", "check"}

\* the targets of the engine calls of the run, in order
CallTargets == [i \in 1..Len(engineLog) |-> engineLog[i].target]

AllRepositories == <<Primary>> \o CopyToBackends

C29_NoPasswordFileLeft ==
    /\ cp_ret # "none" => cp_files = {}
    /\ \A i \in 1..Len(cp_runs) :
          cp_runs[i].pwfiles =
             (IF NeedsPasswordFile(cp_op, cp_opts) THEN {PasswordFile} ELSE {})

C29_Witness ==
    /\ cp_op = "init"
    /\ cp_ret = "exit"
    /\ Len(cp_runs) = 1
    /\ cp_runs[1].pwfiles = {PasswordFile}
    /\ cp_files = {}

(***************************************************************************)
(* C30. The engine operations of a run come in order: on one repository    *)
(* backup (copy on a secondary), then forget, then prune, then check,      *)
(* each at most once, and no operation on the primary comes after an       *)
(* operation on a secondary.  (The lock listings of the stale-lock         *)
(* verification are not steps of a repository's chain.)                    *)
(***************************************************************************)
Rank(op) ==
    IF op \in {"backup", "copy"} THEN 1
    ELSE IF op = "forget" THEN 2
    ELSE IF op = "prune" THEN 3
    ELSE 4

StepIndexes == {i \in 1..Len(engineLog) : engineLog[i].op # "locks"}

\* the operation at index j comes after every earlier one in the order of
\* the claim
InOrder(j) ==
    \A i \in StepIndexes :
        i < j =>
           /\ engineLog[i].target = engineLog[j].target =>
                 Rank(engineLog[i].op) < Rank(engineLog[j].op)
           /\ engineLog[j].target = Primary => engineLog[i].target = Primary

C31_LockBeforeSideEffects == ~st_acquired => st_log = <<>>

\* the host filters of the forget and copy calls made so far
HostFilters ==
    {engineLog[i].opts.Hostname :
        i \in {j \in 1..Len(engineLog) : engineLog[j].op \in {"forget", "copy"}}}

\* C32: within one invocation the hostname filter is applied uniformly:
\* either every forget and copy call is scoped to the current host or
\* every one of them has the filter cleared
C32_UniformHostFilter == Cardinality(HostFilters) <= 1

\* the state file of repository t holds a timestamp recorded for t
HasTimestamp(t) ==
    /\ ck_files[ck_hash[t]].kind = "state"
    /\ ck_files[ck_hash[t]].Repository = t

\* what the interval logic answers for repository t now
Triggered(t) ==
    ShouldRunDeepCheck(ck_files[ck_hash[t]], t, ck_interval, ck_now)

\* C33 as stated: with a persisted timestamp N days old and an interval of
\* M > 0 days the interval logic triggers a deep check if and only if
\* N >= M, the boundary of exactly M days included
C33_TriggeredFromBoundary_Original ==
    \A t \in CheckRepos :
        (HasTimestamp(t) /\ ck_interval > 0) =>
            (Triggered(t) <=>
                ck_now >= ck_files[ck_hash[t]].LastCheck + ck_interval)

\* C33 amended: with a persisted timestamp N days old and an interval of
\* M > 0 days the interval logic triggers a deep check if and only if
\* N > M; when exactly M days have elapsed it does not trigger yet
C33_TriggeredPastBoundary ==
    \A t \in CheckRepos :
        (HasTimestamp(t) /\ ck_interval > 0) =>
            (Triggered(t) <=>
                ck_now > ck_files[ck_hash[t]].LastCheck + ck_interval)

\* a full run without --deep checks a repository exactly M days after its
\* last recorded deep check, and the check does not read all data
C33_Witness ==
    /\ ck_last.step
    /\ ck_run = [kind |-> "full", deep |-> FALSE, auto |-> FALSE]
    /\ ck_interval > 0
    /\ ck_last.before.kind = "state"
    /\ ck_last.before.Repository = ck_last.target
    /\ ck_now = ck_last.before.LastCheck + ck_interval
    /\ ck_last.args = <<"check">>

\* C34: after a deep check of a repository succeeds its persisted timestamp
\* is the current time, so that the interval logic, asked again at once
\* for the same repository, does not promote the next check to deep mode
C34_NotPromotedAgain ==
    (ck_last.step /\ ck_last.result = "ok" /\ ReadAllData(ck_last)) =>
        /\ ~Triggered(ck_last.target)
        /\ ck_interval > 0 =>
              /\ HasTimestamp(ck_last.target)
              /\ ck_files[ck_hash[ck_last.target]].LastCheck = ck_now

\* what a read of the deep-check state answers for repository t
ReadFor(t) == LastCheck(ck_files[ck_hash[t]], t)

\* the same read in the next state
ReadForNext(t) == LastCheck(ck_files'[ck_hash[t]], t)

\* a read for t answers a timestamp only from a record made for t
OwnTimestampOnly ==
    \A t \in CheckRepos :
        ~ReadFor(t).zero =>
            /\ ck_files[ck_hash[t]].Repository = t
            /\ ReadFor(t).time = ck_files[ck_hash[t]].LastCheck

\* C35 as stated: a read for repository R never returns a timestamp
\* recorded for another repository, and a check step of one repository
\* never changes what is read for another, even when the two locations
\* map to the same state key
C35_IndependentState_Original ==
    /\ []OwnTimestampOnly
    /\ [][\A t \in CheckRepos :
            (ck_last'.step /\ ck_pos' = ck_pos + 1 /\ ck_last'.target # t) =>
                ReadForNext(t) = ReadFor(t)]_vars

\* C35 amended: a read for repository R never returns a timestamp recorded
\* for another repository, and a check step of one repository changes what
\* is read for another only when the two locations map to the same state
\* key; the other repository then reads as never checked
C35_IndependentState ==
    /\ []OwnTimestampOnly
    /\ [][\A t \in CheckRepos :
            (ck_last'.step /\ ck_pos' = ck_pos + 1 /\ ck_last'.target # t
                /\ ReadForNext(t) # ReadFor(t)) =>
                /\ ck_hash[t] = ck_hash[ck_last'.target]
                /\ ReadForNext(t).zero]_vars

\* the first backend shares the state key of the primary, whose record of
\* an earlier deep check has just been overwritten by the backend's
C35_Witness ==
    /\ ck_hash[CopyToBackends[1]] = ck_hash[Primary]
    /\ ck_last.step
    /\ ck_last.target = CopyToBackends[1]
    /\ ck_last.before.kind = "state"
    /\ ck_last.before.Repository = Primary
    /\ ck_files[ck_hash[Primary]].kind = "state"
    /\ ck_files[ck_hash[Primary]].Repository = CopyToBackends[1]
    /\ ReadFor(Primary).zero
    /\ ~ReadFor(CopyToBackends[1]).zero

\* the number of locks of host h in a lock list
CountOf(locks, h) == Cardinality({i \in 1..Len(locks) : locks[i] = h})

\* a verification result is the partition of the lock list by hostname
Partitioned(locks, currentHostname, res) ==
    /\ \A i \in 1..Len(res.OwnHostLocks) : res.OwnHostLocks[i] = currentHostname
    /\ \A i \in 1..Len(res.OtherHostLocks) : res.OtherHostLocks[i] # currentHostname
    /\ \A h \in Hosts :
          CountOf(res.OwnHostLocks, h) + CountOf(res.OtherHostLocks, h)
              = CountOf(locks, h)
    /\ res.HasOwnLocks <=> Len(res.OwnHostLocks) > 0
    /\ res.HasOtherLocks <=> Len(res.OtherHostLocks) > 0

\* the lock list of the latest lock verification that obtained one
LatestLockList ==
    IF Len(engineLog) > 0 /\ engineLog[Len(engineLog)].op = "locks"
          /\ engineLog[Len(engineLog)].result = "ok"
    THEN engineLog[Len(engineLog)].answer
    ELSE <<>>

\* C36: lock verification partitions the lock list by hostname: the locks
\* of the current host are the own locks, all others the other-host locks,
\* none is dropped or counted twice, and hasOwnLocks / hasOtherLocks say
\* whether the respective list is non-empty; hosts {A, A, B} with current
\* host A give two own locks and one other lock
C36_LocksPartitioned ==
    /\ Partitioned(LatestLockList, "self",
                   VerifyNoStaleLocks(LatestLockList, "self"))
    /\ LET res == VerifyNoStaleLocks(<<"self", "self", "other">>, "self")
       IN /\ Len(res.OwnHostLocks) = 2
          /\ Len(res.OtherHostLocks) = 1
          /\ res.HasOwnLocks
          /\ res.HasOtherLocks

\* a full run has just verified a repository that holds two locks of the
\* current host
C36_Witness ==
    /\ command = "full"
    /\ LatestLockList = <<"self", "self">>
    /\ Len(staleLockRepos) > 0

\* the hook calls of a dry run spawn nothing, and an executable hook file
\* is not spawned by a dry-run invocation
DryRunSpawnsNothing ==
    /\ flags.dryRun => \A i \in 1..Len(hookLog) : ~hookLog[i].spawned
    /\ \A e \in ExitCodes : ~Run("exec", TRUE, e).spawned /\ ~Run("exec", TRUE, e).err

\* C37 as stated: with dry-run enabled a hook whose path is nonexistent or
\* unreadable returns empty output and a nil error, and a hook that exists
\* and is executable is not spawned
C37_DryRunHookNoOp_Original ==
    /\ DryRunSpawnsNothing
    /\ \A f \in {"missing", "staterr"}, e \in ExitCodes :
          ~Run(f, TRUE, e).err /\ ~Run(f, TRUE, e).spawned

\* C37 amended: with dry-run enabled a hook whose path is unset or
\* nonexistent returns empty output and a nil error, a hook whose path
\* cannot be accessed or is not executable returns the same error as in a
\* real run, and a hook that exists and is executable is not spawned
C37_DryRunHookNoOp ==
    /\ DryRunSpawnsNothing
    /\ \A f \in {"unset", "missing"}, e \in ExitCodes :
          ~Run(f, TRUE, e).err /\ ~Run(f, TRUE, e).spawned
    /\ \A f \in {"staterr", "notexec"}, e \in ExitCodes :
          /\ Run(f, TRUE, e).err /\ ~Run(f, TRUE, e).spawned
          /\ Run(f, TRUE, e) = Run(f, FALSE, e)

\* a dry run of the full workflow whose pre-backup hook call returned an
\* error: the hook file could not be accessed or was not executable
C37_Witness ==
    /\ flags.dryRun
    /\ command = "full"
    /\ Len(hookLog) > 0
    /\ hookLog[1].hook = "pre_backup"
    /\ hookLog[1].err
    /\ ~hookLog[1].spawned

\* process p's Acquire returns "another instance is already running"
AcquireRefused(p) == lk_pc[p] = "flock" /\ lk_pc'[p] = "idle"

\* C38: Acquire fails with the "another instance is already running" error
\* only when another instance holds the lock at that moment, that is, is
\* between its successful Acquire and its Release; a concurrent IsLocked
\* probe or Release never makes an Acquire fail while no instance holds
\* the lock
C38_RefusedOnlyWhenHeld ==
    [][\A p \in Procs :
          AcquireRefused(p) => \E q \in Procs \ {p} : lk_pc[q] = "held"]_vars

\* C39: a name of copy_to_backends that has no entry in the backends map is
\* skipped in every workflow and command: no engine operation is invoked
\* for it with an empty repository, and nothing is added to the error list
\* for it
C39_MissingBackendSkipped ==
    /\ \A i \in 1..Len(bk_calls) : bk_calls[i].repository # NoRepository
    /\ \A i \in 1..Len(bk_errors) : bk_run.known[bk_errors[i].name]

\* the lock list of repository t was obtained and held no lock of this host
ObservedFree(t) ==
    \E i \in LocksCalls :
        /\ engineLog[i].target = t
        /\ engineLog[i].result = "ok"
        /\ ~HasLockOf(i, "self")

\* C40: a run with lock verification enabled ends with the verdict success
\* only if every checked repository, the primary and each secondary, was
\* observed to hold no lock of the current host; a repository whose lock
\* list could not be obtained does not count as verified
C40_SuccessOnlyIfVerified ==
    (Done /\ command = "full" /\ flags.verifyNoLocks /\ ret.err = "nil") =>
        \A t \in Targets : ObservedFree(t)

====
